---- MODULE Spec2Model ----
(***************************************************************************)
(* A model of lovcode's search service (src-tauri/src/services/search.rs): *)
(* build_search_index, search_chats, the transcript scan, content          *)
(* extraction, command-alias resolution and week bucketing.                *)
(*                                                                         *)
(* Specifications:                                                         *)
(*   Spec        build_search_index / search_chats as concurrent           *)
(*               processes over the SEARCH_INDEX mutex, the index          *)
(*               directory, the projects directory and the stats file.     *)
(*   SpecScan    the transcript scan of one build, entry by entry.         *)
(*   SpecExtract extract_content_with_meta as a pure function.             *)
(*   SpecAlias   scan_commands_for_aliases and the name resolution.        *)
(*   SpecWeek    the week key of a record timestamp.                       *)
(***************************************************************************)
EXTENDS Integers, Sequences, FiniteSets, TLC

VARIABLES
    \* ---- Spec: the search service ----
    SEARCH_INDEX,   \* the Mutex's content: Option<SearchIndex>
    guard,          \* who holds the SEARCH_INDEX mutex ("free" or a process)
    index_dir,      \* get_index_dir() on disk
    projects_dir,   \* <claude dir>/projects on disk
    stats_file,     \* get_command_stats_path() on disk
    pc,             \* position of every process
    writer,         \* per build: the Index it created and its IndexWriter
    ret,            \* per process: the value its last call returned
    midBuild,       \* per search: builds that were in progress when it was called
    settled,        \* what the last successful build saw, while no build ran since
    calls,          \* number of build_search_index calls made so far
    \* ---- SpecExtract: extract_content_with_meta ----
    value,          \* the argument, an Option<serde_json::Value>
    extracted,      \* what the call returned: (String, bool)
    \* ---- SpecWeek: the week buckets of one command ----
    stamps,         \* the timestamps of the records that invoke the command
    week_stats,     \* command_stats[name]: week key -> count
    counted,        \* how many of the records the scan has passed
    \* ---- SpecAlias: the alias map and the names counted ----
    commands_dir,   \* <claude dir>/commands on disk
    walk,           \* the definition files the directory walk has yielded, in order
    alias_map,      \* alias -> canonical name
    command_stats,  \* name -> week key -> count
    marker,         \* the command-name marker counted last
    invocations,    \* how many markers the scan has counted
    \* ---- SpecScan: the transcript scan of one build ----
    entry,          \* the directory entry the scan passed last
    visited,        \* how many entries the scan has passed
    indexed_count,  \* the build's counter of indexed documents
    added,          \* documents handed to index_writer.add_document
    scan_pc,        \* "idle", "scan" or "done"
    scan_ret,       \* what the build returned
    \* ---- SpecFilter: the result list of search_chats ----
    matches,        \* the project_id of every document that matches the query, best score first
    limit,          \* the limit argument, an Option<usize>
    results,        \* per project filter: what search_chats returned
    \* ---- SpecTokenize: JiebaTokenizer::token_stream ----
    text,           \* the text to tokenize
    words,          \* the words JIEBA.cut(text, true) returns
    stream,         \* the JiebaTokenStream returned
    \* ---- SpecAtomic: security::atomic_write ----
    path_file,      \* the file at path
    tmp_file,       \* the file at tmp_path
    content,        \* the content argument
    previous,       \* the file at path when atomic_write was called
    aw_pc,          \* position of the call
    aw_ret,         \* what the call returned
    \* ---- SpecPath: encode_project_path and decode_project_path_unsafe ----
    project_path,   \* the path that is encoded
    on_disk,        \* the paths that exist, of those the decoding probes
    encoded_id,     \* the project id that encodes the path
    decoded,        \* the decoded project id
    \* ---- SpecWorkspace: the persisted workspace and the calls that change it ----
    ws_file,        \* workspace.json
    ws_lock,        \* WORKSPACE_LOCK
    ws_pc,          \* where each call stands
    ws_op,          \* the operation of each call
    ws_data,        \* the WorkspaceData each call holds
    ws_ret,         \* what each call returned
    \* ---- SpecPty: the PTY sessions of one id ----
    PTY_SESSIONS,   \* the session whose writer is under the id
    PTY_CONTROLS,   \* the session whose running flag is under the id
    PTY_MASTERS,    \* the session whose master is under the id
    PTY_SCROLLBACK, \* the buffer under the id
    PTY_SCROLLBACK_LAST_SAVE, \* whether a save time is under the id
    PTY_SCROLLBACK_DIRTY, \* whether the id is in the dirty set
    scrollback_file, \* the scrollback file of the id
    running,        \* the running flag of each session
    reader_pc,      \* where the reader thread of each session stands
    emitted,        \* the bytes of output read so far
    appended,       \* all bytes the buffer under the id was given
    pty_last,       \* the last operation
    \* ---- SpecSummary: the session summary of the documents of one transcript ----
    transcript,     \* the lines of the transcript file
    documents,      \* the documents added for the file
    passes,         \* the passes made over the lines
    \* ---- SpecSequence: the workspace commands called one after another ----
    workspace_json, \* workspace.json
    calls_made,     \* the number of calls made
    ids_drawn,      \* the number of ids drawn from Uuid::new_v4
    assigned,       \* the seq of every feature created, in the order of creation
    last_call       \* the last call - its command, whether it returned Ok, whether the call before it failed

searchVars == <<SEARCH_INDEX, guard, index_dir, projects_dir, stats_file, pc,
                writer, ret, midBuild, settled, calls>>

extractVars == <<value, extracted>>
weekVars == <<stamps, week_stats, counted>>
aliasVars == <<commands_dir, walk, alias_map, command_stats, marker, invocations>>
scanVars == <<entry, visited, indexed_count, added, scan_pc, scan_ret>>
filterVars == <<matches, limit, results>>
tokenizeVars == <<text, words, stream>>
atomicVars == <<path_file, tmp_file, content, previous, aw_pc, aw_ret>>
pathVars == <<project_path, on_disk, encoded_id, decoded>>
workspaceVars == <<ws_file, ws_lock, ws_pc, ws_op, ws_data, ws_ret>>
ptyVars == <<PTY_SESSIONS, PTY_CONTROLS, PTY_MASTERS, PTY_SCROLLBACK, PTY_SCROLLBACK_LAST_SAVE, PTY_SCROLLBACK_DIRTY, scrollback_file, running, reader_pc, emitted, appended, pty_last>>
summaryVars == <<transcript, documents, passes>>
sequenceVars == <<workspace_json, calls_made, ids_drawn, assigned, last_call>>

\* everything but the search service's state
outsideSearch == <<extractVars, weekVars, aliasVars, scanVars, filterVars, tokenizeVars, atomicVars, pathVars, workspaceVars, ptyVars, summaryVars, sequenceVars>>
\* everything but extract_content_with_meta's state
outsideExtract == <<searchVars, weekVars, aliasVars, scanVars, filterVars, tokenizeVars, atomicVars, pathVars, workspaceVars, ptyVars, summaryVars, sequenceVars>>
\* everything but the week buckets
outsideWeek == <<searchVars, extractVars, aliasVars, scanVars, filterVars, tokenizeVars, atomicVars, pathVars, workspaceVars, ptyVars, summaryVars, sequenceVars>>
\* everything but the alias map and the names counted
outsideAlias == <<searchVars, extractVars, weekVars, scanVars, filterVars, tokenizeVars, atomicVars, pathVars, workspaceVars, ptyVars, summaryVars, sequenceVars>>
\* everything but the scan's state; the scan counts into command_stats and
\* reads alias_map
outsideScan == <<searchVars, extractVars, weekVars, commands_dir, walk, marker, invocations, filterVars, tokenizeVars, atomicVars, pathVars, workspaceVars, ptyVars, summaryVars, sequenceVars>>

\* everything but the state of the result list of search_chats
outsideFilter == <<searchVars, extractVars, weekVars, aliasVars, scanVars, tokenizeVars, atomicVars, pathVars, workspaceVars, ptyVars, summaryVars, sequenceVars>>

\* everything but the state of JiebaTokenizer::token_stream
outsideTokenize == <<searchVars, extractVars, weekVars, aliasVars, scanVars, filterVars, atomicVars, pathVars, workspaceVars, ptyVars, summaryVars, sequenceVars>>

\* everything but the state of security::atomic_write
outsideAtomic == <<searchVars, extractVars, weekVars, aliasVars, scanVars, filterVars, tokenizeVars, pathVars, workspaceVars, ptyVars, summaryVars, sequenceVars>>

\* everything but the state of encode_project_path and decode_project_path_unsafe
outsidePath == <<searchVars, extractVars, weekVars, aliasVars, scanVars, filterVars, tokenizeVars, atomicVars, workspaceVars, ptyVars, summaryVars, sequenceVars>>

\* everything but the state of the persisted workspace and the calls that change it
outsideWorkspace == <<searchVars, extractVars, weekVars, aliasVars, scanVars, filterVars, tokenizeVars, atomicVars, pathVars, ptyVars, summaryVars, sequenceVars>>

\* everything but the state of the PTY sessions of one id
outsidePty == <<searchVars, extractVars, weekVars, aliasVars, scanVars, filterVars, tokenizeVars, atomicVars, pathVars, workspaceVars, summaryVars, sequenceVars>>

\* everything but the state of the session summary of the documents of one transcript
outsideSummary == <<searchVars, extractVars, weekVars, aliasVars, scanVars, filterVars, tokenizeVars, atomicVars, pathVars, workspaceVars, ptyVars, sequenceVars>>

\* everything but the state of the workspace commands called one after another
outsideSequence == <<searchVars, extractVars, weekVars, aliasVars, scanVars, filterVars, tokenizeVars, atomicVars, pathVars, workspaceVars, ptyVars, summaryVars>>

vars == <<searchVars, extractVars, weekVars, aliasVars, scanVars, filterVars, tokenizeVars, atomicVars, pathVars, workspaceVars, ptyVars, summaryVars, sequenceVars>>

-----------------------------------------------------------------------------
(* Bounds *)

\* transcripts that may exist under the projects directory
NumTranscripts == 1
\* build_search_index calls per behaviour
MaxBuilds == 2

Transcripts == 1..NumTranscripts
Builders == {"b1", "b2"}
Searchers == {"s1"}
Procs == Builders \cup Searchers

\* query strings: "*" matches every document, "(" is one the query parser
\* rejects
MatchAll == "*"
Malformed == "("
Queries == {MatchAll, Malformed}

-----------------------------------------------------------------------------
(* Values *)

None == [bound |-> FALSE]
Bound(g, how) == [bound |-> TRUE, gen |-> g, via |-> how]

NoDir == [exists |-> FALSE, meta |-> FALSE, gen |-> 0, docs |-> {}]
EmptyDir == [exists |-> TRUE, meta |-> FALSE, gen |-> 0, docs |-> {}]
IndexOf(g, d) == [exists |-> TRUE, meta |-> TRUE, gen |-> g, docs |-> d]

Absent == [exists |-> FALSE, files |-> {}]
Projects(f) == [exists |-> TRUE, files |-> f]
ProjectsStates == {Absent} \cup {Projects(f) : f \in SUBSET Transcripts}

NoStats == [present |-> FALSE, gen |-> 0, counts |-> {}]
StatsOf(g, c) == [present |-> TRUE, gen |-> g, counts |-> c]

NoWriter == [gen |-> 0, docs |-> {}, seen |-> {}]

NoRet == [kind |-> "none"]
OkCount(n) == [kind |-> "ok", count |-> n]
OkHits(h) == [kind |-> "ok", hits |-> h]
Err(msg) == [kind |-> "err", msg |-> msg]
NotBuilt == "Search index not built. Please build index first."
Unsettled == [valid |-> FALSE, seen |-> {}]

\* a build is in progress once it has begun wiping the index directory and
\* until it has installed its context or failed
InProgress(b) == pc[b] \in {"mkdir", "create", "scan", "commit", "install"}
Running(b) == pc[b] \notin {"idle", "done"}
\* the order in which the blocking pool hands out its workers
WorkerBefore(o, b) == o = "b1" /\ b = "b2"

-----------------------------------------------------------------------------
(* Strings are sequences of characters *)

Newline == "\n"
EmptyStr == <<>>

RECURSIVE StringsUpTo(_, _)
\* all strings over `chars` of length at most n
StringsUpTo(chars, n) ==
    IF n = 0 THEN {EmptyStr}
    ELSE LET shorter == StringsUpTo(chars, n - 1)
         IN shorter \cup {Append(w, c) : w \in shorter, c \in chars}

RECURSIVE SeqsUpTo(_, _)
\* all sequences over `elems` of length at most n
SeqsUpTo(elems, n) ==
    IF n = 0 THEN {<<>>}
    ELSE LET shorter == SeqsUpTo(elems, n - 1)
         IN shorter \cup {Append(w, e) : w \in shorter, e \in elems}

-----------------------------------------------------------------------------
(* extract_content_with_meta *)

\* longest string in a JSON value
MaxStrLen == 1
\* most blocks in a content array
MaxBlocks == 2

JsonChars == {"a", Newline}
JsonStrings == StringsUpTo(JsonChars, MaxStrLen)

\* obj.get(key).and_then(|v| v.as_str()): the field is there and is a string
NoField == [has |-> FALSE, str |-> EmptyStr]
StrField(w) == [has |-> TRUE, str |-> w]
Fields(strs) == {NoField} \cup {StrField(w) : w \in strs}

\* an element of a content array: an object with its "type" and "text"
\* fields, or some other JSON value
NotObject == [object |-> FALSE, type |-> NoField, text |-> NoField]
Block(t, x) == [object |-> TRUE, type |-> t, text |-> x]
BlockTypes == {"text", "tool_use", "tool_result", "image"}
TypeFields == {NoField} \cup {StrField(t) : t \in BlockTypes}
Blocks(strs) == {NotObject} \cup {Block(t, x) : t \in TypeFields, x \in Fields(strs)}

\* Option<Value>
NoValue == [kind |-> "none", str |-> EmptyStr, arr |-> <<>>]
StringValue(w) == [kind |-> "string", str |-> w, arr |-> <<>>]
ArrayValue(a) == [kind |-> "array", str |-> EmptyStr, arr |-> a]
OtherValue == [kind |-> "other", str |-> EmptyStr, arr |-> <<>>]
Values ==
    {NoValue, OtherValue}
        \cup {StringValue(w) : w \in JsonStrings}
        \cup {ArrayValue(a) : a \in SeqsUpTo(Blocks(JsonStrings), MaxBlocks)}

\* the closure of arr.iter().any(..)
IsToolBlock(item) ==
    /\ item.object
    /\ item.type.has
    /\ item.type.str \in {"tool_use", "tool_result"}

\* a filter that forgets to look at the block's type
TextOfAnyBlock(item) == IF item.object THEN item.text ELSE NoField

\* the closure of arr.iter().filter_map(..): Some(text) or None
TextOfBlock(item) ==
    IF item.object /\ item.type.has /\ item.type.str = "text"
    THEN item.text
    ELSE NoField

RECURSIVE FilterMapText(_)
\* .filter_map(..).collect::<Vec<_>>()
FilterMapText(arr) ==
    IF arr = <<>> THEN <<>>
    ELSE LET t == TextOfBlock(Head(arr))
         IN (IF t.has THEN <<t.str>> ELSE <<>>) \o FilterMapText(Tail(arr))

RECURSIVE JoinFrom(_, _, _, _)
\* [T]::join: the first element, then the separator before every further one
JoinFrom(parts, sep, i, acc) ==
    IF i > Len(parts) THEN acc
    ELSE JoinFrom(parts, sep, i + 1,
                  IF i = 1 THEN parts[i] ELSE acc \o sep \o parts[i])
Join(parts, sep) == JoinFrom(parts, sep, 1, EmptyStr)

extract_content_with_meta(v) ==
    CASE v.kind = "string" -> [text |-> v.str, has_tool |-> FALSE]
      [] v.kind = "array" ->
            [text |-> Join(FilterMapText(v.arr), <<Newline>>),
             has_tool |-> \E i \in 1..Len(v.arr) : IsToolBlock(v.arr[i])]
      [] OTHER -> [text |-> EmptyStr, has_tool |-> FALSE]

Pending == [text |-> <<"?">>, has_tool |-> FALSE, pending |-> TRUE]

ExtractParked ==
    /\ value = NoValue
    /\ extracted = Pending

\* the call
Extract ==
    /\ UNCHANGED outsideExtract
    /\ extracted = Pending
    /\ extracted' = extract_content_with_meta(value)
    /\ UNCHANGED value

-----------------------------------------------------------------------------
(* The week key of a record: parse_from_rfc3339(ts_str), format("%Y-W%V") *)

\* years after 2024 that timestamps are drawn from
YearSpan == 1
\* days at either end of every month that timestamps are drawn from
EdgeDays == 4

Years == 2024..(2024 + YearSpan)

IsLeap(y) == (y % 4 = 0 /\ y % 100 # 0) \/ y % 400 = 0
DaysInMonth(y, m) ==
    IF m = 2 THEN (IF IsLeap(y) THEN 29 ELSE 28)
    ELSE IF m \in {4, 6, 9, 11} THEN 30 ELSE 31
DaysInYear(y) == IF IsLeap(y) THEN 366 ELSE 365

\* the local date of an RFC 3339 timestamp, in the timestamp's own offset
Stamp(y, m, d) == [year |-> y, month |-> m, day |-> d]
Stamps ==
    {Stamp(y, m, d) : y \in Years, m \in 1..12, d \in 1..31} \cap
    UNION {{Stamp(y, m, d) :
               d \in (1..EdgeDays) \cup ((DaysInMonth(y, m) - EdgeDays + 1)..DaysInMonth(y, m))} :
           y \in Years, m \in 1..12}

RECURSIVE DaysBeforeMonth(_, _)
DaysBeforeMonth(y, m) ==
    IF m = 1 THEN 0 ELSE DaysBeforeMonth(y, m - 1) + DaysInMonth(y, m - 1)
\* day of the year, from 1
Ordinal(t) == DaysBeforeMonth(t.year, t.month) + t.day
\* days from 0001-01-01, a Monday, to the 1st of January of y
DaysBeforeYear(y) ==
    365 * (y - 1) + ((y - 1) \div 4) - ((y - 1) \div 100) + ((y - 1) \div 400)
DayNumber(t) == DaysBeforeYear(t.year) + Ordinal(t) - 1
\* Monday = 1 .. Sunday = 7
Weekday(t) == (DayNumber(t) % 7) + 1
\* 53 when the year starts on a Thursday, or is a leap year that starts on a
\* Wednesday
WeeksInYear(y) ==
    LET jan1 == (DaysBeforeYear(y) % 7) + 1
    IN IF jan1 = 4 \/ (IsLeap(y) /\ jan1 = 3) THEN 53 ELSE 52

\* %V: the ISO 8601 week number, 01..53
IsoWeekNumber(t) ==
    LET w == (Ordinal(t) - Weekday(t) + 10) \div 7
    IN IF w < 1 THEN WeeksInYear(t.year - 1)
       ELSE IF w > WeeksInYear(t.year) THEN 1
       ELSE w

Digits == <<"0", "1", "2", "3", "4", "5", "6", "7", "8", "9">>
Digit(n) == Digits[(n % 10) + 1]
\* %Y: the calendar year of the date, four digits
FormatYear(t) ==
    <<Digit(t.year \div 1000), Digit(t.year \div 100), Digit(t.year \div 10), Digit(t.year)>>
\* ts.format("%Y-W%V").to_string()
WeekKey(t) ==
    FormatYear(t) \o <<"-", "W">> \o
    <<Digit(IsoWeekNumber(t) \div 10), Digit(IsoWeekNumber(t))>>

\* .entry(week_key).and_modify(|c| *c += 1).or_insert(1)
Increment(stats, key) ==
    [k \in DOMAIN stats \cup {key} |->
        IF k = key THEN (IF key \in DOMAIN stats THEN stats[key] + 1 ELSE 1)
        ELSE stats[k]]

NoCounts == [k \in {} |-> 0]

WeekParked ==
    /\ stamps = <<>>
    /\ week_stats = NoCounts
    /\ counted = 0

\* the scan passes the next record that invokes the command
CountRecord ==
    /\ UNCHANGED outsideWeek
    /\ counted < Len(stamps)
    /\ counted' = counted + 1
    /\ week_stats' = Increment(week_stats, WeekKey(stamps[counted + 1]))
    /\ UNCHANGED stamps

-----------------------------------------------------------------------------
(* scan_commands_for_aliases and the resolution of an invoked name.  A name *)
(* such as foo is one character of a string: the code never looks inside it *)

\* markers the scan counts in one build
MaxInvocations == 2

Whitespace == {" ", "\t", Newline}
DoubleQuote == "\""
SingleQuote == "'"
Slash == "/"
Comma == ","

RECURSIVE TrimStartIn(_, _)
TrimStartIn(s, cs) ==
    IF s # <<>> /\ Head(s) \in cs THEN TrimStartIn(Tail(s), cs) ELSE s
RECURSIVE TrimEndIn(_, _)
TrimEndIn(s, cs) ==
    IF s # <<>> /\ s[Len(s)] \in cs THEN TrimEndIn(SubSeq(s, 1, Len(s) - 1), cs) ELSE s
\* str::trim
Trim(s) == TrimEndIn(TrimStartIn(s, Whitespace), Whitespace)
\* str::trim_matches(c)
TrimMatches(s, c) == TrimEndIn(TrimStartIn(s, {c}), {c})
\* a mutation of trim_start_matches: the string is left as it is
KeepStart(s, c) == s
\* str::trim_start_matches(c)
TrimStartMatches(s, c) == TrimStartIn(s, {c})

\* str::split(sep): the pieces between the separators, empty ones included
RECURSIVE SplitFrom(_, _, _, _)
SplitFrom(s, sep, i, piece) ==
    IF i > Len(s) THEN <<piece>>
    ELSE IF s[i] = sep THEN <<piece>> \o SplitFrom(s, sep, i + 1, <<>>)
    ELSE SplitFrom(s, sep, i + 1, Append(piece, s[i]))
Split(s, sep) == SplitFrom(s, sep, 1, <<>>)

\* the alias of one piece of the list: trim, trim_matches('"'),
\* trim_matches('\''), trim_start_matches('/')
AliasOf(piece) ==
    TrimStartMatches(TrimMatches(TrimMatches(Trim(piece), DoubleQuote), SingleQuote), Slash)

\* alias_map.insert(alias, canonical) for every non-empty alias, in order
RECURSIVE InsertAliases(_, _, _, _)
InsertAliases(map, pieces, i, canonical) ==
    IF i > Len(pieces) THEN map
    ELSE LET alias == AliasOf(pieces[i])
             next == IF alias = <<>> THEN map
                     ELSE [a \in DOMAIN map \cup {alias} |->
                              IF a = alias THEN canonical ELSE map[a]]
         IN InsertAliases(next, pieces, i + 1, canonical)

\* for line in fm.lines(): a line that starts with "aliases:" is parsed
RECURSIVE ScanLines(_, _, _, _)
ScanLines(map, lines, i, canonical) ==
    IF i > Len(lines) THEN map
    ELSE LET line == lines[i]
             next == IF line # <<>> /\ Head(line) = "aliases:"
                     THEN InsertAliases(map, Split(Trim(TrimStartMatches(line, "aliases:")), Comma),
                                        1, canonical)
                     ELSE map
         IN ScanLines(next, lines, i + 1, canonical)

\* rel_path.with_extension("").to_string_lossy().replace('/', ":").replace('\\', ":")
Canonical(path) ==
    LET stem == IF path # <<>> /\ path[Len(path)] \in {".md", ".txt"}
                THEN SubSeq(path, 1, Len(path) - 1) ELSE path
    IN [i \in 1..Len(stem) |-> IF stem[i] \in {Slash, "\\"} THEN ":" ELSE stem[i]]

\* path.extension().is_some_and(|e| e == "md")
IsMd(path) == path # <<>> /\ path[Len(path)] = ".md"

\* one entry of the walk that is not a directory
ScanDefinition(map, file) ==
    IF IsMd(file.path) /\ file.readable /\ file.opens /\ file.closes
    THEN ScanLines(map, file.fm, 1, Canonical(file.path))
    ELSE map

\* the pieces an aliases list is written with
AliasNames == {"baz", "qux"}
Quotes == {<<>>, <<DoubleQuote>>, <<SingleQuote>>}
Slashes == {<<>>, <<Slash>>}
Written(n) == {lq \o sl \o <<n>> \o rq : lq \in Quotes, sl \in Slashes, rq \in Quotes}
Separators == {<<Comma>>, <<Comma, " ">>}
AliasLists ==
    UNION {Written(n) : n \in AliasNames}
    \cup {lq \o sl \o <<"baz">> \o rq \o sep \o lq \o sl \o <<"qux">> \o rq :
             lq \in Quotes, sl \in Slashes, rq \in Quotes, sep \in Separators}
    \cup {q \o sl \o <<"baz">> \o sep \o sl \o <<"qux">> \o q :
             q \in Quotes \ {<<>>}, sl \in Slashes, sep \in Separators}
AliasLines == {<<"aliases:", " ">> \o l : l \in AliasLists} \cup {<<"aliases:">>}
OtherLine == <<"description:", " ", "baz">>

File(p, r, o, c, lines) == [path |-> p, readable |-> r, opens |-> o, closes |-> c, fm |-> lines]
\* what a definition file can hold: a closed frontmatter block with or
\* without an aliases line, a block that is never closed, no block at all
Contents ==
    {[readable |-> TRUE, opens |-> TRUE, closes |-> TRUE, fm |-> <<OtherLine, l>>] : l \in AliasLines}
    \cup {[readable |-> TRUE, opens |-> TRUE, closes |-> TRUE, fm |-> <<OtherLine>>],
          [readable |-> TRUE, opens |-> TRUE, closes |-> FALSE, fm |-> <<>>],
          [readable |-> TRUE, opens |-> FALSE, closes |-> FALSE, fm |-> <<>>],
          [readable |-> FALSE, opens |-> FALSE, closes |-> FALSE, fm |-> <<>>]}
FooBar == <<"foo", Slash, "bar", ".md">>
Zed == <<"zed", ".md">>
\* a file of the tree that is no definition file
Notes == File(<<"zed", ".txt">>, TRUE, TRUE, TRUE, <<<<"aliases:", " ", "baz">>>>)
NoCommandsDir == [exists |-> FALSE, files |-> {}]
CommandsDir(fs) == [exists |-> TRUE, files |-> fs]
CommandsDirs ==
    {NoCommandsDir, CommandsDir({})}
    \cup {CommandsDir({File(FooBar, c.readable, c.opens, c.closes, c.fm)}) : c \in Contents}
    \cup {CommandsDir({File(FooBar, c.readable, c.opens, c.closes, c.fm),
                       File(Zed, d.readable, d.opens, d.closes, d.fm)}) :
             c \in Contents, d \in Contents}
    \cup {CommandsDir({File(FooBar, c.readable, c.opens, c.closes, c.fm), Notes}) :
             c \in Contents}

NoAliases == [a \in {} |-> <<>>]
NoStatsYet == [n \in {} |-> NoCounts]
NoMarker == <<>>
\* what the first group of the command pattern captures: "/" and a name
Markers == {<<Slash, n>> : n \in AliasNames \cup {"zap"}}

AliasParked ==
    /\ commands_dir = NoCommandsDir
    /\ walk = <<>>
    /\ alias_map = NoAliases
    /\ command_stats = NoStatsYet
    /\ marker = NoMarker
    /\ invocations = 0

Walked == {walk[i] : i \in 1..Len(walk)}
WalkDone == \A f \in commands_dir.files : f.path \in Walked

\* the walk yields the next entry, in whatever order read_dir gives
AliasScanEntry ==
    /\ UNCHANGED outsideAlias
    /\ commands_dir.exists
    /\ invocations = 0
    /\ \E f \in commands_dir.files :
          /\ f.path \notin Walked
          /\ walk' = Append(walk, f.path)
          /\ alias_map' = ScanDefinition(alias_map, f)
    /\ UNCHANGED <<commands_dir, command_stats, marker, invocations>>

\* alias_map.get(&raw_name).cloned().unwrap_or(raw_name)
Resolve(map, raw_name) == IF raw_name \in DOMAIN map THEN map[raw_name] ELSE raw_name

\* command_stats.entry(name).or_default().entry(week_key)
\*     .and_modify(|c| *c += 1).or_insert(1)
CountCommand(stats, name, week_key) ==
    [n \in DOMAIN stats \cup {name} |->
        IF n = name
        THEN Increment(IF name \in DOMAIN stats THEN stats[name] ELSE NoCounts, week_key)
        ELSE stats[n]]

\* the transcript scan meets a marker in a record with a valid timestamp
CountInvocation ==
    /\ UNCHANGED outsideAlias
    /\ WalkDone
    /\ invocations < MaxInvocations
    /\ \E m \in Markers :
          LET raw_name == TrimStartMatches(m, Slash)
              name == Resolve(alias_map, raw_name)
          IN /\ marker' = m
             /\ command_stats' = CountCommand(command_stats, name, WeekKey(Stamp(2024, 1, 1)))
    /\ invocations' = invocations + 1
    /\ UNCHANGED <<commands_dir, walk, alias_map>>

-----------------------------------------------------------------------------
(* The transcript scan of build_search_index: the loop over the entries of  *)
(* every project directory.  A document is counted, not stored: the scan    *)
(* reads nothing back from the writer                                        *)

\* lines of one transcript file
MaxLines == 2
\* directory entries one scan passes
MaxEntries == 2

StartsWith(name, prefix) == name # <<>> /\ Head(name) = prefix
EndsWith(name, suffix) == name # <<>> /\ name[Len(name)] = suffix

\* Option<bool>
NoBool == [has |-> FALSE, val |-> FALSE]
SomeBool(b) == [has |-> TRUE, val |-> b]
\* Option<RawMessage>
NoMessage == [present |-> FALSE, content |-> NoValue]
Message(c) == [present |-> TRUE, content |-> c]
\* Option<String> timestamp: absent, RFC 3339, or some other string
NoTimestamp == [present |-> FALSE, rfc3339 |-> FALSE, stamp |-> Stamp(2024, 1, 1)]
Timestamp(t) == [present |-> TRUE, rfc3339 |-> TRUE, stamp |-> t]
BadTimestamp == [present |-> TRUE, rfc3339 |-> FALSE, stamp |-> Stamp(2024, 1, 1)]

\* one line of a transcript: whether it parses as a RawLine, the fields read
\* from it, the command-name markers in its text, and whether its text
\* contains "type":"queue-operation"
Line(ok, t, msg, meta, ts, ms, q) ==
    [parses |-> ok, type |-> t, message |-> msg, is_meta |-> meta, timestamp |-> ts,
     markers |-> ms, queue_text |-> q]

Text == StringValue(<<"a">>)
Baz == <<Slash, "baz">>
At == Timestamp(Stamp(2024, 12, 30))
LineShapes ==
    {Line(TRUE, "assistant",
          Message(ArrayValue(<<Block(StrField("text"), StrField(<<"a">>)),
                               Block(StrField("tool_use"), NoField)>>)),
          SomeBool(FALSE), At, <<>>, FALSE),
     Line(TRUE, "user", Message(Text), NoBool, At, <<Baz>>, FALSE),
     Line(TRUE, "user", Message(Text), SomeBool(TRUE), At, <<Baz>>, FALSE),
     Line(TRUE, "assistant", Message(StringValue(EmptyStr)), NoBool, At, <<>>, FALSE),
     Line(TRUE, "user", NoMessage, NoBool, At, <<>>, FALSE),
     Line(TRUE, "user", Message(Text), NoBool, BadTimestamp, <<Baz>>, FALSE),
     Line(TRUE, "system", Message(Text), NoBool, At, <<Baz>>, FALSE),
     Line(TRUE, "summary", NoMessage, NoBool, NoTimestamp, <<>>, FALSE),
     Line(TRUE, "queue-operation", NoMessage, NoBool, At, <<Baz>>, TRUE),
     Line(FALSE, "user", Message(Text), NoBool, At, <<Baz>>, FALSE)}

\* the text of a command-name marker
CommandMarker(name) == <<"<command-name>">> \o name \o <<"</command-name>">>
\* a record whose only marker stands inside a tool_use block
ToolLine ==
    Line(TRUE, "assistant",
         Message(ArrayValue(<<Block(StrField("tool_use"), StrField(CommandMarker(Baz)))>>)),
         NoBool, At, <<Baz>>, FALSE)

\* an entry of the projects directory that is no directory, or an entry of a
\* project directory
Entry(k, n, r, c) == [kind |-> k, name |-> n, readable |-> r, content |-> c]
NoEntry == Entry("none", <<>>, FALSE, <<>>)
\* names whose files are drawn with every content, and names whose files
\* are drawn with one line
EntryNames == {<<"s", ".jsonl">>, <<"agent-", "s", ".jsonl">>, <<"x", "agent-", "s", ".jsonl">>}
OtherNames == {<<"s", ".jsonl", ".bak">>, <<"agent-", "s", ".txt">>}
Entries ==
    {Entry("file", n, TRUE, c) : n \in EntryNames, c \in SeqsUpTo(LineShapes, MaxLines)}
    \cup {Entry("file", n, TRUE, <<l>>) : n \in OtherNames, l \in LineShapes}
    \cup {Entry("file", n, FALSE, <<>>) : n \in EntryNames}
    \cup {Entry("stray", <<"s", ".jsonl">>, TRUE, <<l>>) : l \in LineShapes}
    \cup {Entry("file", <<"s", ".jsonl">>, TRUE, <<ToolLine>>)}
\* an entry that read_dir yields as Err, under the projects root or inside a
\* project directory, and a project directory that read_dir cannot open
Unreadable ==
    {Entry("error", <<"s", ".jsonl">>, FALSE, <<>>), Entry("noaccess", <<"project">>, FALSE, <<>>)}

\* a mutation of the name test: the reserved prefix is not looked at
ScannedWithPrefix(name) == EndsWith(name, ".jsonl")
\* name.ends_with(".jsonl") && !name.starts_with("agent-")
Scanned(name) == EndsWith(name, ".jsonl") /\ ~StartsWith(name, "agent-")

\* a mutation of the document test: the isMeta flag is not looked at
IndexableAnyMeta(is_meta, text_content) == text_content # EmptyStr
\* !is_meta && !text_content.is_empty()
Indexable(is_meta, text_content) == ~is_meta /\ text_content # EmptyStr

\* the documents one line adds
LineDocs(line) ==
    IF /\ line.parses
       /\ line.type \in {"user", "assistant"}
       /\ line.message.present
       /\ Indexable(IF line.is_meta.has THEN line.is_meta.val ELSE FALSE,
                    extract_content_with_meta(line.message.content).text)
    THEN 1 ELSE 0

\* the markers of one line counted, in the order captures_iter yields them
RECURSIVE CountMarkers(_, _, _, _, _)
CountMarkers(stats, map, ms, i, week_key) ==
    IF i > Len(ms) THEN stats
    ELSE CountMarkers(CountCommand(stats, Resolve(map, TrimStartMatches(ms[i], Slash)), week_key),
                      map, ms, i + 1, week_key)

\* the command stats after one line
LineStats(stats, map, line) ==
    IF /\ line.parses
       /\ line.markers # <<>>
       /\ ~line.queue_text
       /\ line.timestamp.present
       /\ line.timestamp.rfc3339
    THEN CountMarkers(stats, map, line.markers, 1, WeekKey(line.timestamp.stamp))
    ELSE stats

\* the second pass over the lines of a file: [docs, stats]
RECURSIVE ScanLinesOfFile(_, _, _, _, _)
ScanLinesOfFile(lines, i, docs, stats, map) ==
    IF i > Len(lines) THEN [docs |-> docs, stats |-> stats]
    ELSE ScanLinesOfFile(lines, i + 1, docs + LineDocs(lines[i]),
                         LineStats(stats, map, lines[i]), map)

\* fs::read_to_string(&path).unwrap_or_default()
FileContent(e) == IF e.readable THEN e.content ELSE <<>>

ScanParked ==
    /\ entry = NoEntry
    /\ visited = 0
    /\ indexed_count = 0
    /\ added = 0
    /\ scan_pc = "idle"
    /\ scan_ret = NoRet

\* the loops yield one more entry and the body runs on it
VisitEntry ==
    /\ UNCHANGED outsideScan
    /\ scan_pc = "scan"
    /\ entry = NoEntry
    /\ visited < MaxEntries
    /\ \E e \in Entries \cup Unreadable :
          /\ entry' = e
          /\ IF e.kind = "file" /\ Scanned(e.name)
             THEN LET r == ScanLinesOfFile(FileContent(e), 1, 0, command_stats, alias_map)
                  IN /\ added' = added + r.docs
                     /\ indexed_count' = indexed_count + r.docs
                     /\ command_stats' = r.stats
             ELSE UNCHANGED <<added, indexed_count, command_stats>>
          \* project_entry.map_err(..)?, entry.map_err(..)? and
          \* fs::read_dir(&project_path_buf).map_err(..)? return Err
          /\ IF e \in Unreadable
             THEN scan_pc' = "done" /\ scan_ret' = Err("io")
             ELSE UNCHANGED <<scan_pc, scan_ret>>
    /\ visited' = visited + 1
    /\ UNCHANGED alias_map

\* the loop goes on to ask for the next entry: the last one is dropped
EndIteration ==
    /\ UNCHANGED outsideScan
    /\ scan_pc = "scan"
    /\ entry # NoEntry
    /\ entry' = NoEntry
    /\ UNCHANGED <<visited, indexed_count, added, alias_map, command_stats, scan_pc, scan_ret>>

\* read_dir of the projects root, add_document or commit fails: the build
\* returns Err
ScanFail ==
    /\ UNCHANGED outsideScan
    /\ scan_pc = "scan"
    /\ scan_pc' = "done"
    /\ scan_ret' = Err("io")
    /\ UNCHANGED <<entry, visited, indexed_count, added, alias_map, command_stats>>

\* the loops end, the writer commits, the build returns Ok(indexed_count)
ScanReturn ==
    /\ UNCHANGED outsideScan
    /\ scan_pc = "scan"
    /\ scan_pc' = "done"
    /\ scan_ret' = OkCount(indexed_count)
    /\ UNCHANGED <<entry, visited, indexed_count, added, alias_map, command_stats>>

-----------------------------------------------------------------------------
(* The result list of search_chats: the top documents of the ranking, then  *)
(* the project filter                                                        *)

\* documents of the index that match the query
MaxDocs == 3
\* the largest limit a caller passes
MaxLimit == 2
\* limit.unwrap_or(50)
DefaultLimit == 50

ProjectIds == {"p", "q"}
\* Option<String> project_id: none, or a project id, with or without documents
NoFilter == "none"
Filters == {NoFilter} \cup ProjectIds \cup {"r"}
\* Option<usize> limit
NoLimit == [some |-> FALSE, n |-> 0]
SomeLimit(n) == [some |-> TRUE, n |-> n]
Limits == {NoLimit} \cup {SomeLimit(n) : n \in 0..MaxLimit}

\* the call has not been made
NotCalled == [kind |-> "none"]
\* TopDocs::with_limit(0) panics
Panicked == [kind |-> "panic"]

Min(a, b) == IF a <= b THEN a ELSE b
\* searcher.search(&parsed_query, &TopDocs::with_limit(max_results)): the
\* first max_results documents of the ranking, by their rank
TopDocs(ranking, max_results) == [i \in 1..Min(max_results, Len(ranking)) |-> i]

RECURSIVE KeepProject(_, _, _, _)
\* the loop over top_docs: a document of another project is passed over
KeepProject(ranking, top_docs, i, filter) ==
    IF i > Len(top_docs) THEN <<>>
    ELSE (IF filter # NoFilter /\ ranking[top_docs[i]] # filter THEN <<>> ELSE <<top_docs[i]>>)
         \o KeepProject(ranking, top_docs, i + 1, filter)

\* a mutation of the result list: the filter comes before the cut
FilteredTopDocs(ranking, max_results, filter) ==
    LET all == KeepProject(ranking, [i \in 1..Len(ranking) |-> i], 1, filter)
    IN SubSeq(all, 1, Min(max_results, Len(all)))
\* lines 454-502: the hits of a call, as ranks in the ranking
ResultList(ranking, max_results, filter) ==
    KeepProject(ranking, TopDocs(ranking, max_results), 1, filter)

FilterParked ==
    /\ matches = <<>>
    /\ limit = NoLimit
    /\ results = [f \in Filters |-> NotCalled]

\* search_chats(query, limit, project_id) on an index and a query whose
\* ranking is matches
SearchFiltered(f) ==
    /\ UNCHANGED outsideFilter
    /\ results[f] = NotCalled
    /\ LET max_results == IF limit.some THEN limit.n ELSE DefaultLimit
       IN results' = [results EXCEPT ![f] =
                         IF max_results = 0 THEN Panicked
                         ELSE OkHits(ResultList(matches, max_results, f))]
    /\ UNCHANGED <<matches, limit>>

-----------------------------------------------------------------------------
(* JiebaTokenizer::token_stream.  JIEBA.cut(text, true) is library code: it *)
(* cuts the text into consecutive words that together make up the text, and *)
(* which cut it makes is left open.  Offsets count characters               *)

\* characters of a text to tokenize
MaxTextLen == 3

\* "z" stands for a Han character
TextChars == {"a", "z", " ", Newline}
Texts == StringsUpTo(TextChars, MaxTextLen)

RECURSIVE Cuts(_)
\* every way to cut a text into non-empty consecutive words
Cuts(t) ==
    IF t = <<>> THEN {<<>>}
    ELSE UNION {{<<SubSeq(t, 1, k)>> \o rest : rest \in Cuts(SubSeq(t, k + 1, Len(t)))} :
                   k \in 1..Len(t)}

\* text[offset..].find(word).map(|i| offset + i).unwrap_or(offset)
FindFrom(t, offset, word) ==
    LET found == {i \in offset..(Len(t) - Len(word)) : SubSeq(t, i + 1, i + Len(word)) = word}
    IN IF found = {} THEN offset
       ELSE CHOOSE i \in found : \A j \in found : i <= j

\* a mutation of the word test: every word becomes a token
KeepsAnyWord(word_str) == TRUE
\* !word_str.is_empty()
KeepsWord(word_str) == word_str # EmptyStr

RECURSIVE TokensFrom(_, _, _, _, _)
\* the loop over the words: the tokens pushed so far and the offset
TokensFrom(t, ws, i, offset, toks) ==
    IF i > Len(ws) THEN toks
    ELSE LET word == ws[i]
             word_str == Trim(word)
             start == FindFrom(t, offset, word)
             end == start + Len(word)
         IN IF KeepsWord(word_str)
            THEN TokensFrom(t, ws, i + 1, end,
                            Append(toks, [offset_from |-> start, offset_to |-> end,
                                          position |-> Len(toks), text |-> word_str,
                                          position_length |-> 1]))
            ELSE TokensFrom(t, ws, i + 1, offset, toks)

token_stream(t, ws) == [tokens |-> TokensFrom(t, ws, 1, 0, <<>>), index |-> 0]

NoStream == [tokens |-> <<>>, index |-> -1]

TokenizeParked ==
    /\ text = <<>>
    /\ words = <<>>
    /\ stream = NoStream

\* token_stream(text), with the cut that jieba makes
Tokenize ==
    /\ UNCHANGED outsideTokenize
    /\ stream = NoStream
    /\ stream' = token_stream(text, words)
    /\ UNCHANGED <<text, words>>

-----------------------------------------------------------------------------
(* security::atomic_write(path, content): a temporary file in the directory *)
(* of path is created, written, synced and renamed onto path                 *)

\* bytes of a file content
MaxBytes == 2

Bytes == {"x", "y"}
FileContents == StringsUpTo(Bytes, MaxBytes)
\* a path with no file, and a file with its content
NoFile == [exists |-> FALSE, bytes |-> <<>>]
FileOf(c) == [exists |-> TRUE, bytes |-> c]
Files == {NoFile} \cup {FileOf(c) : c \in FileContents}

AtomicParked ==
    /\ path_file = NoFile
    /\ tmp_file = NoFile
    /\ content = <<>>
    /\ previous = NoFile
    /\ aw_pc = "idle"
    /\ aw_ret = NoRet

\* fs::File::create(&tmp_path)?: a new, empty temporary file
AtomicCreate ==
    /\ UNCHANGED outsideAtomic
    /\ aw_pc = "create"
    /\ tmp_file' = FileOf(<<>>)
    /\ aw_pc' = "write"
    /\ UNCHANGED <<path_file, content, previous, aw_ret>>

\* a mutation of write_all: the bytes go to the file at path
AtomicWriteToPath ==
    /\ UNCHANGED outsideAtomic
    /\ aw_pc = "write"
    /\ Len(tmp_file.bytes) < Len(content)
    /\ tmp_file' = FileOf(Append(tmp_file.bytes, content[Len(tmp_file.bytes) + 1]))
    /\ path_file' = tmp_file'
    /\ UNCHANGED <<content, previous, aw_pc, aw_ret>>

\* file.write_all(content)?: the bytes reach the temporary file one write
\* at a time
AtomicWrite ==
    /\ UNCHANGED outsideAtomic
    /\ aw_pc = "write"
    /\ Len(tmp_file.bytes) < Len(content)
    /\ tmp_file' = FileOf(Append(tmp_file.bytes, content[Len(tmp_file.bytes) + 1]))
    /\ UNCHANGED <<path_file, content, previous, aw_pc, aw_ret>>

\* file.sync_all()?
AtomicSync ==
    /\ UNCHANGED outsideAtomic
    /\ aw_pc = "write"
    /\ tmp_file.bytes = content
    /\ aw_pc' = "rename"
    /\ UNCHANGED <<path_file, tmp_file, content, previous, aw_ret>>

\* fs::rename(&tmp_path, path)?; Ok(())
AtomicRename ==
    /\ UNCHANGED outsideAtomic
    /\ aw_pc = "rename"
    /\ path_file' = tmp_file
    /\ tmp_file' = NoFile
    /\ aw_pc' = "done"
    /\ aw_ret' = [kind |-> "ok"]
    /\ UNCHANGED <<content, previous>>

\* a step fails: map_err(..)? returns AppError::FileWrite
AtomicFail ==
    /\ UNCHANGED outsideAtomic
    /\ aw_pc \in {"create", "write", "rename"}
    /\ aw_pc' = "done"
    /\ aw_ret' = Err("FileWrite")
    /\ UNCHANGED <<path_file, tmp_file, content, previous>>

\* the process dies between two steps: the files stay as they are
AtomicCrash ==
    /\ UNCHANGED outsideAtomic
    /\ aw_pc \in {"create", "write", "rename"}
    /\ aw_pc' = "crashed"
    /\ UNCHANGED <<path_file, tmp_file, content, previous, aw_ret>>

-----------------------------------------------------------------------------
(* encode_project_path and decode_project_path_unsafe.  A directory name     *)
(* such as projects is one character of a path: the code never looks inside *)

\* characters of a path
MaxPathLen == 5

Hyphen == "-"
Dot == "."
Nul == "NUL"
PathChars == {Slash, Dot, Hyphen, "a", "projects"}
\* absolute paths
Paths == {<<Slash>> \o w : w \in StringsUpTo(PathChars, MaxPathLen - 1)}

RECURSIVE ReplaceFrom(_, _, _, _)
\* str::replace(from, to): every match of from, leftmost first, none
\* overlapping
ReplaceFrom(s, i, from, to) ==
    IF i > Len(s) THEN <<>>
    ELSE IF i + Len(from) - 1 <= Len(s) /\ SubSeq(s, i, i + Len(from) - 1) = from
         THEN to \o ReplaceFrom(s, i + Len(from), from, to)
         ELSE <<s[i]>> \o ReplaceFrom(s, i + 1, from, to)
Replace(s, from, to) == ReplaceFrom(s, 1, from, to)

\* path.replace("/.", "--").replace('/', "-")
encode_project_path(path) ==
    Replace(Replace(path, <<Slash, Dot>>, <<Hyphen, Hyphen>>), <<Slash>>, <<Hyphen>>)

\* a mutation of the decoding: "--" is not told from two separators
DecodeEveryHyphen(id) == Replace(id, <<Hyphen>>, <<Slash>>)
\* id.replace("--", "\x00").replace('-', "/").replace('\x00', "/.")
DecodeBase(id) ==
    Replace(Replace(Replace(id, <<Hyphen, Hyphen>>, <<Nul>>), <<Hyphen>>, <<Slash>>),
            <<Nul>>, <<Slash, Dot>>)

\* str::find: the offset of the first match, as Option<usize>
Find(s, pat) ==
    LET at == {i \in 0..(Len(s) - Len(pat)) : SubSeq(s, i + 1, i + Len(pat)) = pat}
    IN IF at = {} THEN [some |-> FALSE, idx |-> 0]
       ELSE [some |-> TRUE, idx |-> CHOOSE i \in at : \A j \in at : i <= j]

\* rest.split('/').filter(|s| !s.is_empty()).collect()
Segments(rest) == SelectSeq(Split(rest, Slash), LAMBDA piece : piece # <<>>)

\* the paths try_merge_segments probes, in its order: all segments merged,
\* then the first merge_count + 1 of them for merge_count = n - 1 down to 1
MergeCandidates(prefix, rest) ==
    LET segments == Segments(rest)
        n == Len(segments)
        candidate(merge_count) ==
            LET merged_part == Join(SubSeq(segments, 1, merge_count + 1), <<Hyphen>>)
                rest_part == Join(SubSeq(segments, merge_count + 2, n), <<Slash>>)
            IN IF rest_part = <<>> THEN prefix \o merged_part
               ELSE prefix \o merged_part \o <<Slash>> \o rest_part
    IN IF n = 0 THEN <<>>
       ELSE <<prefix \o Join(segments, <<Hyphen>>)>>
            \o [k \in 1..(n - 1) |-> candidate(n - k)]

\* the first candidate that exists, as Option<String>
try_merge_segments(prefix, rest, existing) ==
    LET cands == MergeCandidates(prefix, rest)
        hits == {k \in 1..Len(cands) : cands[k] \in existing}
    IN IF hits = {} THEN [some |-> FALSE, path |-> <<>>]
       ELSE [some |-> TRUE, path |-> cands[CHOOSE k \in hits : \A j \in hits : k <= j]]

BaseDirs == <<"projects", "repos", "Documents", "Desktop">>

RECURSIVE MergeUnder(_, _, _)
\* the loop over the base directories
MergeUnder(base, d, existing) ==
    IF d > Len(BaseDirs) THEN base
    ELSE LET base_dir == <<Slash, BaseDirs[d], Slash>>
             found == Find(base, base_dir)
             prefix == SubSeq(base, 1, found.idx + Len(base_dir))
             rest == SubSeq(base, found.idx + Len(base_dir) + 1, Len(base))
             merged == try_merge_segments(prefix, rest, existing)
         IN IF found.some /\ merged.some THEN merged.path
            ELSE MergeUnder(base, d + 1, existing)

decode_project_path_unsafe(id, existing) ==
    LET base == DecodeBase(id)
    IN IF base \in existing THEN base ELSE MergeUnder(base, 1, existing)

\* every path the decoding of id can probe
Probed(id) ==
    LET base == DecodeBase(id)
    IN {base} \cup
       UNION {LET base_dir == <<Slash, BaseDirs[d], Slash>>
                  found == Find(base, base_dir)
                  cands == MergeCandidates(SubSeq(base, 1, found.idx + Len(base_dir)),
                                           SubSeq(base, found.idx + Len(base_dir) + 1, Len(base)))
              IN IF found.some THEN {cands[k] : k \in 1..Len(cands)} ELSE {} :
              d \in 1..Len(BaseDirs)}

NotDecoded == <<"?">>

PathParked ==
    /\ project_path = <<>>
    /\ on_disk = {}
    /\ encoded_id = <<>>
    /\ decoded = NotDecoded

\* encode_project_path(path)
EncodePath ==
    /\ UNCHANGED outsidePath
    /\ encoded_id = <<>>
    /\ encoded_id' = encode_project_path(project_path)
    /\ UNCHANGED <<project_path, on_disk, decoded>>

\* decode_project_path_unsafe(id)
DecodePath ==
    /\ UNCHANGED outsidePath
    /\ encoded_id # <<>>
    /\ decoded = NotDecoded
    /\ decoded' = decode_project_path_unsafe(encoded_id, on_disk)
    /\ UNCHANGED <<project_path, on_disk, encoded_id>>

-----------------------------------------------------------------------------
(* workspace_store: the persisted workspace and the calls that change it.   *)
(* An id is a tuple, <<>> is the None of an Option<String>.                  *)

\* calls of the workspace commands that may overlap, each on its own thread
NumCalls == 2
Calls == 1..NumCalls

NoId == <<>>
\* uuid::Uuid::new_v4() in call c: an id no other call draws
NewId(c) == <<"uuid", c>>

NoCounter == [some |-> FALSE, n |-> 0]
SomeCounter(n) == [some |-> TRUE, n |-> n]

Panel(id, is_shared) == [id |-> id, is_shared |-> is_shared]
Feature(id, seq, panels) == [id |-> id, seq |-> seq, panels |-> panels]
WorkspaceProject(id, path, features, shared_panels, active_feature_id) ==
    [id |-> id, path |-> path, features |-> features,
     shared_panels |-> shared_panels, active_feature_id |-> active_feature_id]
WorkspaceData(projects, active_project_id, feature_counter) ==
    [projects |-> projects, active_project_id |-> active_project_id,
     feature_counter |-> feature_counter]

\* WorkspaceData::default()
DefaultWorkspace == WorkspaceData(<<>>, NoId, NoCounter)

\* workspace.json: absent, not parseable, or a document
NoWorkspaceFile == [kind |-> "absent"]
CorruptWorkspaceFile == [kind |-> "corrupt"]
WorkspaceFile(data) == [kind |-> "json", data |-> data]

P1 == <<"p", 1>>
P2 == <<"p", 2>>
F1 == <<"f", 1>>
F2 == <<"f", 2>>
K1 == <<"k", 1>>
K2 == <<"k", 2>>

\* a workspace of two projects, the first with two features and a panel
TwoProjects(feature_counter) ==
    WorkspaceData(
        <<WorkspaceProject(P1, "/a",
              <<Feature(F1, 1, <<Panel(K1, FALSE)>>), Feature(F2, 2, <<>>)>>, <<>>, F1),
          WorkspaceProject(P2, "/c", <<>>, <<>>, NoId)>>,
        P1, feature_counter)

\* the files a call can find: none, a broken one, one written by this
\* version, one written before the global feature counter was added
WorkspaceFiles ==
    {NoWorkspaceFile, CorruptWorkspaceFile,
     WorkspaceFile(TwoProjects(SomeCounter(2))), WorkspaceFile(TwoProjects(NoCounter))}

ErrData == [kind |-> "err"]
OkData(data) == [kind |-> "ok", data |-> data]

MaxOf(S) == IF S = {} THEN 0 ELSE CHOOSE n \in S : \A m \in S : m <= n

\* load_workspace_internal
load_workspace_internal(file) ==
    IF file.kind = "absent" THEN OkData(DefaultWorkspace)
    ELSE IF file.kind = "corrupt" THEN ErrData
    ELSE LET data == file.data
             max_seq == MaxOf(UNION {{data.projects[i].features[j].seq :
                                          j \in DOMAIN data.projects[i].features} :
                                      i \in DOMAIN data.projects})
         IN IF ~data.feature_counter.some /\ max_seq > 0
            THEN OkData([data EXCEPT !.feature_counter = SomeCounter(max_seq)])
            ELSE OkData(data)

\* iter().position(..): the first index whose element has the id, 0 for None
PositionOfId(seq, id) ==
    LET at == {i \in DOMAIN seq : seq[i].id = id}
    IN IF at = {} THEN 0 ELSE CHOOSE i \in at : \A j \in at : i <= j

\* Vec::remove(index)
RemoveAt(seq, index) == SubSeq(seq, 1, index - 1) \o SubSeq(seq, index + 1, Len(seq))

\* first().map(|x| x.id.clone())
FirstId(seq) == IF seq = <<>> THEN NoId ELSE seq[1].id

\* the operations: a name and arguments
AddProject(path) == [name |-> "add_project", path |-> path]
RemoveProject(id) == [name |-> "remove_project", id |-> id]
SetActiveProject(id) == [name |-> "set_active_project", id |-> id]
CreateFeature(project_id) == [name |-> "create_feature", project_id |-> project_id]
DeleteFeature(project_id, feature_id) ==
    [name |-> "delete_feature", project_id |-> project_id, feature_id |-> feature_id]
SetActiveFeature(project_id, feature_id) ==
    [name |-> "set_active_feature", project_id |-> project_id, feature_id |-> feature_id]
AddPanelToFeature(project_id, feature_id, panel) ==
    [name |-> "add_panel_to_feature", project_id |-> project_id,
     feature_id |-> feature_id, panel |-> panel]
RemovePanelFromFeature(project_id, feature_id, panel_id) ==
    [name |-> "remove_panel_from_feature", project_id |-> project_id,
     feature_id |-> feature_id, panel_id |-> panel_id]
TogglePanelShared(project_id, panel_id) ==
    [name |-> "toggle_panel_shared", project_id |-> project_id, panel_id |-> panel_id]
SaveWorkspace(data) == [name |-> "save_workspace", data |-> data]
LoadWorkspace == [name |-> "load_workspace"]

\* the calls through with_workspace_mut
Mutators ==
    {AddProject("/a"), AddProject("/b"), RemoveProject(P1),
     SetActiveProject(P2), CreateFeature(P1), DeleteFeature(P1, F1),
     SetActiveFeature(P1, F2), AddPanelToFeature(P1, F1, Panel(K2, FALSE)),
     RemovePanelFromFeature(P1, F1, K1), TogglePanelShared(P1, K1)}
Operations == Mutators \cup {SaveWorkspace(DefaultWorkspace), LoadWorkspace}

add_project(data, path, c) ==
    IF \E i \in DOMAIN data.projects : data.projects[i].path = path THEN ErrData
    ELSE LET project == WorkspaceProject(NewId(c), path, <<>>, <<>>, NoId)
         IN OkData([data EXCEPT
                !.projects = Append(@, project),
                !.active_project_id = IF @ = NoId THEN project.id ELSE @])

\* a mutation of remove_project: the active project is not looked at
RemoveProjectKeepingActive(data, id) ==
    LET index == PositionOfId(data.projects, id)
    IN IF index = 0 THEN ErrData
       ELSE OkData([data EXCEPT !.projects = RemoveAt(data.projects, index)])

remove_project(data, id) ==
    LET index == PositionOfId(data.projects, id)
        projects == RemoveAt(data.projects, index)
    IN IF index = 0 THEN ErrData
       ELSE OkData([data EXCEPT
                !.projects = projects,
                !.active_project_id = IF @ = id THEN FirstId(projects) ELSE @])

set_active_project(data, id) ==
    IF PositionOfId(data.projects, id) = 0 THEN ErrData
    ELSE OkData([data EXCEPT !.active_project_id = id])

\* a mutation of create_feature: the seq follows the highest seq in use
CreateFeatureAfterHighest(data, project_id, c) ==
    LET seq == MaxOf(UNION {{data.projects[i].features[j].seq :
                                 j \in DOMAIN data.projects[i].features} :
                             i \in DOMAIN data.projects}) + 1
        p == PositionOfId(data.projects, project_id)
        feature == Feature(NewId(c), seq, <<>>)
    IN IF p = 0 THEN ErrData
       ELSE OkData([data EXCEPT
                !.feature_counter = SomeCounter(seq),
                !.projects[p].features = Append(@, feature),
                !.projects[p].active_feature_id = IF @ = NoId THEN feature.id ELSE @])

create_feature(data, project_id, c) ==
    LET seq == (IF data.feature_counter.some THEN data.feature_counter.n ELSE 0) + 1
        p == PositionOfId(data.projects, project_id)
        feature == Feature(NewId(c), seq, <<>>)
    IN IF p = 0 THEN ErrData
       ELSE OkData([data EXCEPT
                !.feature_counter = SomeCounter(seq),
                !.projects[p].features = Append(@, feature),
                !.projects[p].active_feature_id = IF @ = NoId THEN feature.id ELSE @])

delete_feature(data, project_id, feature_id) ==
    LET p == PositionOfId(data.projects, project_id)
        index == PositionOfId(data.projects[p].features, feature_id)
        features == RemoveAt(data.projects[p].features, index)
    IN IF p = 0 THEN ErrData
       ELSE IF index = 0 THEN ErrData
       ELSE OkData([data EXCEPT
                !.projects[p].features = features,
                !.projects[p].active_feature_id =
                    IF @ = feature_id THEN FirstId(features) ELSE @])

set_active_feature(data, project_id, feature_id) ==
    LET p == PositionOfId(data.projects, project_id)
    IN IF p = 0 THEN ErrData
       ELSE IF PositionOfId(data.projects[p].features, feature_id) = 0 THEN ErrData
       ELSE OkData([data EXCEPT !.projects[p].active_feature_id = feature_id])

add_panel_to_feature(data, project_id, feature_id, panel) ==
    LET p == PositionOfId(data.projects, project_id)
        f == PositionOfId(data.projects[p].features, feature_id)
    IN IF p = 0 THEN ErrData
       ELSE IF f = 0 THEN ErrData
       ELSE OkData([data EXCEPT !.projects[p].features[f].panels = Append(@, panel)])

remove_panel_from_feature(data, project_id, feature_id, panel_id) ==
    LET p == PositionOfId(data.projects, project_id)
        f == PositionOfId(data.projects[p].features, feature_id)
    IN IF p = 0 THEN ErrData
       ELSE IF f = 0 THEN ErrData
       ELSE OkData([data EXCEPT !.projects[p].features[f].panels =
                        SelectSeq(@, LAMBDA panel : panel.id # panel_id)])

toggle_panel_shared(data, project_id, panel_id) ==
    LET p == PositionOfId(data.projects, project_id)
        project == data.projects[p]
        shared == PositionOfId(project.shared_panels, panel_id)
        active == PositionOfId(project.features, project.active_feature_id)
        holders == {f \in DOMAIN project.features :
                        PositionOfId(project.features[f].panels, panel_id) # 0}
        holder == CHOOSE f \in holders : \A g \in holders : f <= g
        index == PositionOfId(project.features[holder].panels, panel_id)
    IN IF p = 0 THEN ErrData
       ELSE IF shared # 0
       THEN LET panel == Panel(panel_id, FALSE)
                rest == RemoveAt(project.shared_panels, shared)
            IN IF project.active_feature_id # NoId /\ active # 0
               THEN OkData([data EXCEPT
                        !.projects[p].shared_panels = rest,
                        !.projects[p].features[active].panels = Append(@, panel)])
               ELSE OkData([data EXCEPT !.projects[p].shared_panels = rest])
       ELSE IF holders # {}
       THEN OkData([data EXCEPT
                !.projects[p].features[holder].panels = RemoveAt(@, index),
                !.projects[p].shared_panels = Append(@, Panel(panel_id, TRUE))])
       ELSE ErrData

\* the closure that operation o hands to with_workspace_mut in call c
Modify(o, data, c) ==
    CASE o.name = "add_project" -> add_project(data, o.path, c)
      [] o.name = "remove_project" -> remove_project(data, o.id)
      [] o.name = "set_active_project" -> set_active_project(data, o.id)
      [] o.name = "create_feature" -> create_feature(data, o.project_id, c)
      [] o.name = "delete_feature" -> delete_feature(data, o.project_id, o.feature_id)
      [] o.name = "set_active_feature" -> set_active_feature(data, o.project_id, o.feature_id)
      [] o.name = "add_panel_to_feature" ->
            add_panel_to_feature(data, o.project_id, o.feature_id, o.panel)
      [] o.name = "remove_panel_from_feature" ->
            remove_panel_from_feature(data, o.project_id, o.feature_id, o.panel_id)
      [] o.name = "toggle_panel_shared" -> toggle_panel_shared(data, o.project_id, o.panel_id)

\* WORKSPACE_LOCK: RwLock<()>
NoCall == 0
Unlocked == [writer |-> NoCall, readers |-> {}]

NoOperation == [name |-> "none"]
NoData == [kind |-> "none"]

WorkspaceParked ==
    /\ ws_file = NoWorkspaceFile
    /\ ws_lock = Unlocked
    /\ ws_pc = <<>>
    /\ ws_op = <<>>
    /\ ws_data = <<>>
    /\ ws_ret = <<>>

\* a command is invoked
WorkspaceCall(c, o) ==
    /\ UNCHANGED outsideWorkspace
    /\ ws_pc[c] = "idle"
    /\ ws_op' = [ws_op EXCEPT ![c] = o]
    /\ ws_pc' = [ws_pc EXCEPT ![c] = "lock"]
    /\ UNCHANGED <<ws_file, ws_lock, ws_data, ws_ret>>

\* a mutation of the locking: the write lock is not waited for
WriteLockNotWaited(c) ==
    /\ UNCHANGED outsideWorkspace
    /\ ws_pc[c] = "lock"
    /\ ws_op[c] # LoadWorkspace
    /\ ws_lock' = [ws_lock EXCEPT !.writer = c]
    /\ ws_pc' = [ws_pc EXCEPT ![c] = IF ws_op[c] \in Mutators THEN "modify" ELSE "save"]
    /\ ws_data' = [ws_data EXCEPT ![c] = IF ws_op[c] \in Mutators THEN @ ELSE ws_op[c].data]
    /\ UNCHANGED <<ws_file, ws_op, ws_ret>>

\* WORKSPACE_LOCK.write() in with_workspace_mut and in save_workspace
WriteLock(c) ==
    /\ UNCHANGED outsideWorkspace
    /\ ws_pc[c] = "lock"
    /\ ws_op[c] # LoadWorkspace
    /\ ws_lock = Unlocked
    /\ ws_lock' = [ws_lock EXCEPT !.writer = c]
    /\ ws_pc' = [ws_pc EXCEPT ![c] = IF ws_op[c] \in Mutators THEN "modify" ELSE "save"]
    /\ ws_data' = [ws_data EXCEPT ![c] = IF ws_op[c] \in Mutators THEN @ ELSE ws_op[c].data]
    /\ UNCHANGED <<ws_file, ws_op, ws_ret>>

\* WORKSPACE_LOCK.read() in load_workspace
ReadLock(c) ==
    /\ UNCHANGED outsideWorkspace
    /\ ws_pc[c] = "lock"
    /\ ws_op[c] = LoadWorkspace
    /\ ws_lock.writer = NoCall
    /\ ws_lock' = [ws_lock EXCEPT !.readers = @ \cup {c}]
    /\ ws_pc' = [ws_pc EXCEPT ![c] = "read"]
    /\ UNCHANGED <<ws_file, ws_op, ws_data, ws_ret>>

\* load_workspace: load_workspace_internal, then the read guard is dropped
ReadWorkspace(c) ==
    /\ UNCHANGED outsideWorkspace
    /\ ws_pc[c] = "read"
    /\ ws_ret' = [ws_ret EXCEPT ![c] = load_workspace_internal(ws_file)]
    /\ ws_lock' = [ws_lock EXCEPT !.readers = @ \ {c}]
    /\ ws_pc' = [ws_pc EXCEPT ![c] = "done"]
    /\ UNCHANGED <<ws_file, ws_op, ws_data>>

\* with_workspace_mut: load_workspace_internal()? and f(&mut data)?; an Err
\* of either returns and drops the guard
ModifyWorkspace(c) ==
    /\ UNCHANGED outsideWorkspace
    /\ ws_pc[c] = "modify"
    /\ LET loaded == load_workspace_internal(ws_file)
           result == Modify(ws_op[c], loaded.data, c)
       IN IF loaded.kind = "ok" /\ result.kind = "ok"
          THEN /\ ws_data' = [ws_data EXCEPT ![c] = result.data]
               /\ ws_pc' = [ws_pc EXCEPT ![c] = "save"]
               /\ UNCHANGED <<ws_lock, ws_ret>>
          ELSE /\ ws_ret' = [ws_ret EXCEPT ![c] = ErrData]
               /\ ws_pc' = [ws_pc EXCEPT ![c] = "done"]
               /\ ws_lock' = [ws_lock EXCEPT !.writer = IF @ = c THEN NoCall ELSE @]
               /\ UNCHANGED ws_data
    /\ UNCHANGED <<ws_file, ws_op>>

\* save_workspace_internal(&data) succeeds: the rename of atomic_write puts
\* the document in place; the guard is dropped
SaveWorkspaceInternal(c) ==
    /\ UNCHANGED outsideWorkspace
    /\ ws_pc[c] = "save"
    /\ ws_file' = WorkspaceFile(ws_data[c])
    /\ ws_ret' = [ws_ret EXCEPT ![c] = OkData(ws_data[c])]
    /\ ws_pc' = [ws_pc EXCEPT ![c] = "done"]
    /\ ws_lock' = [ws_lock EXCEPT !.writer = IF @ = c THEN NoCall ELSE @]
    /\ UNCHANGED <<ws_op, ws_data>>

\* save_workspace_internal(&data) fails (create_dir_all or atomic_write):
\* the file stays as it was
SaveWorkspaceFails(c) ==
    /\ UNCHANGED outsideWorkspace
    /\ ws_pc[c] = "save"
    /\ ws_ret' = [ws_ret EXCEPT ![c] = ErrData]
    /\ ws_pc' = [ws_pc EXCEPT ![c] = "done"]
    /\ ws_lock' = [ws_lock EXCEPT !.writer = IF @ = c THEN NoCall ELSE @]
    /\ UNCHANGED <<ws_file, ws_op, ws_data>>

-----------------------------------------------------------------------------
(* pty_manager: the sessions of one id.  The sessions created with the id   *)
(* are numbered in the order of their creation; a byte of output is the      *)
(* number of its place in all output                                        *)

\* the capacity of the scrollback buffer, scaled down from 256 * 1024
MaxScrollback == 3
\* the size of the buffer of read_loop, scaled down from 16384
MaxChunk == 2
\* bytes of output per behaviour
MaxOutput == 4
\* create_session calls per behaviour
MaxSessions == 2

SCROLLBACK_MAX_BYTES == MaxScrollback
Sessions == 1..MaxSessions

\* no entry for the id in a map
NoSession == 0
NoBuffer == [present |-> FALSE, bytes |-> <<>>]
Buffer(bytes) == [present |-> TRUE, bytes |-> bytes]

\* a mutation of the append: nothing is drained
AppendKeepingAll(buf, data) == buf \o data
\* read_loop: overflow = (buf.len() + n).saturating_sub(SCROLLBACK_MAX_BYTES);
\* buf.drain(..overflow) when overflow > 0; buf.extend(&data).  A drain of
\* more than the buffer holds panics, and leaves the buffer as it was
AppendChunk(buf, data) ==
    LET total == Len(buf) + Len(data)
        overflow == IF total > SCROLLBACK_MAX_BYTES THEN total - SCROLLBACK_MAX_BYTES ELSE 0
    IN IF overflow > Len(buf) THEN buf
       ELSE SubSeq(buf, overflow + 1, Len(buf)) \o data

\* load_scrollback_from_disk(id).unwrap_or_else(|| VecDeque::with_capacity(..))
LoadedBuffer == IF scrollback_file.present THEN scrollback_file.bytes ELSE <<>>

NoOp == [op |-> "none", session |-> NoSession]
Op(op, k) == [op |-> op, session |-> k]

PtyParked ==
    /\ PTY_SESSIONS = NoSession
    /\ PTY_CONTROLS = NoSession
    /\ PTY_MASTERS = NoSession
    /\ PTY_SCROLLBACK = NoBuffer
    /\ PTY_SCROLLBACK_LAST_SAVE = FALSE
    /\ PTY_SCROLLBACK_DIRTY = FALSE
    /\ scrollback_file = NoBuffer
    /\ running = <<>>
    /\ reader_pc = <<>>
    /\ emitted = 0
    /\ appended = <<>>
    /\ pty_last = NoOp

\* create_session(id, ..): the writer, the master, the control flag, the
\* scrollback buffer and the save time are inserted under the id, and the
\* reader thread is spawned
CreateSession ==
    /\ UNCHANGED outsidePty
    /\ \E k \in Sessions :
          /\ reader_pc[k] = "unborn"
          /\ \A j \in Sessions : j < k => reader_pc[j] # "unborn"
          /\ PTY_SESSIONS' = k
          /\ PTY_MASTERS' = k
          /\ PTY_CONTROLS' = k
          /\ running' = [running EXCEPT ![k] = TRUE]
          /\ reader_pc' = [reader_pc EXCEPT ![k] = "loop"]
          /\ pty_last' = Op("create_session", k)
    /\ PTY_SCROLLBACK' = Buffer(LoadedBuffer)
    /\ appended' = LoadedBuffer
    /\ PTY_SCROLLBACK_LAST_SAVE' = TRUE
    /\ UNCHANGED <<PTY_SCROLLBACK_DIRTY, scrollback_file, emitted>>

\* read_loop: while running.load(Ordering::Relaxed)
LoopCheck(r) ==
    /\ UNCHANGED outsidePty
    /\ reader_pc[r] = "loop"
    /\ reader_pc' = [reader_pc EXCEPT ![r] = IF running[r] THEN "read" ELSE "cleanup"]
    /\ pty_last' = Op("loop", r)
    /\ UNCHANGED <<PTY_SESSIONS, PTY_CONTROLS, PTY_MASTERS, PTY_SCROLLBACK,
                   PTY_SCROLLBACK_LAST_SAVE, PTY_SCROLLBACK_DIRTY, scrollback_file,
                   running, emitted, appended>>

\* read_loop, Ok(n): the chunk goes to the buffer that is under the id; the
\* buffer is saved when the last save is SCROLLBACK_SAVE_INTERVAL_MS ago
\* (due) or unknown, and marked dirty otherwise; the result of the save is
\* dropped
ReadChunk(r) ==
    /\ UNCHANGED outsidePty
    /\ reader_pc[r] = "read"
    /\ \E n \in 1..MaxChunk, due \in BOOLEAN, written \in BOOLEAN :
          /\ emitted + n <= MaxOutput
          /\ emitted' = emitted + n
          /\ LET data == [i \in 1..n |-> emitted + i]
                 buf == AppendChunk(PTY_SCROLLBACK.bytes, data)
                 should_save == ~PTY_SCROLLBACK_LAST_SAVE \/ due
             IN IF PTY_SCROLLBACK.present
                THEN /\ PTY_SCROLLBACK' = Buffer(buf)
                     /\ appended' = appended \o data
                     /\ PTY_SCROLLBACK_LAST_SAVE' = TRUE
                     /\ PTY_SCROLLBACK_DIRTY' = ~should_save
                     /\ scrollback_file' =
                            IF should_save /\ written THEN Buffer(buf) ELSE scrollback_file
                ELSE /\ due /\ written
                     /\ UNCHANGED <<PTY_SCROLLBACK, appended, PTY_SCROLLBACK_LAST_SAVE,
                                    PTY_SCROLLBACK_DIRTY, scrollback_file>>
    /\ reader_pc' = [reader_pc EXCEPT ![r] = "loop"]
    /\ pty_last' = Op("read", r)
    /\ UNCHANGED <<PTY_SESSIONS, PTY_CONTROLS, PTY_MASTERS, running>>

\* read_loop, Ok(0) or Err(e): the loop is left
ReadEnds(r) ==
    /\ UNCHANGED outsidePty
    /\ reader_pc[r] = "read"
    /\ reader_pc' = [reader_pc EXCEPT ![r] = "cleanup"]
    /\ pty_last' = Op("eof", r)
    /\ UNCHANGED <<PTY_SESSIONS, PTY_CONTROLS, PTY_MASTERS, PTY_SCROLLBACK,
                   PTY_SCROLLBACK_LAST_SAVE, PTY_SCROLLBACK_DIRTY, scrollback_file,
                   running, emitted, appended>>

\* cleanup_session(id): the buffer is saved when it is dirty or not empty,
\* and what is under the id is removed from every map
cleanup_session(written) ==
    /\ scrollback_file' =
          IF /\ PTY_SCROLLBACK.present
             /\ (PTY_SCROLLBACK_DIRTY \/ PTY_SCROLLBACK.bytes # <<>>)
             /\ written
          THEN Buffer(PTY_SCROLLBACK.bytes)
          ELSE scrollback_file
    /\ PTY_SESSIONS' = NoSession
    /\ PTY_CONTROLS' = NoSession
    /\ PTY_MASTERS' = NoSession
    /\ PTY_SCROLLBACK' = NoBuffer
    /\ PTY_SCROLLBACK_LAST_SAVE' = FALSE
    /\ PTY_SCROLLBACK_DIRTY' = FALSE

\* read_loop: cleanup_session(&id) on exit
ReaderCleanup(r) ==
    /\ UNCHANGED outsidePty
    /\ reader_pc[r] = "cleanup"
    /\ \E written \in BOOLEAN : cleanup_session(written)
    /\ reader_pc' = [reader_pc EXCEPT ![r] = "gone"]
    /\ pty_last' = Op("reader_cleanup", r)
    /\ UNCHANGED <<running, emitted, appended>>

\* kill_session(id): the flag that is under the id is cleared, then
\* cleanup_session(id)
KillSession ==
    /\ UNCHANGED outsidePty
    /\ \E k \in Sessions : reader_pc[k] # "unborn"
    /\ running' = IF PTY_CONTROLS # NoSession
                  THEN [running EXCEPT ![PTY_CONTROLS] = FALSE]
                  ELSE running
    /\ \E written \in BOOLEAN : cleanup_session(written)
    /\ pty_last' = Op("kill_session", PTY_SESSIONS)
    /\ UNCHANGED <<reader_pc, emitted, appended>>

-----------------------------------------------------------------------------
(* build_search_index, the two passes over the lines of one transcript: the *)
(* session summary, then the documents.  Of a document only its             *)
(* session_summary field is kept                                             *)

\* lines of the transcript
MaxFileLines == 3

\* Option<String>
NoString == [some |-> FALSE, str |-> EmptyStr]
SomeString(w) == [some |-> TRUE, str |-> w]
\* unwrap_or_default()
UnwrapOrDefault(o) == IF o.some THEN o.str ELSE EmptyStr

\* a line: whether it parses as a RawLine, its type, its summary field, and
\* whether the second pass makes a document of it
SummaryLine(ok, t, summary, doc) == [parses |-> ok, type |-> t, summary |-> summary, doc |-> doc]
SummaryLines ==
    {SummaryLine(TRUE, "summary", SomeString(<<"a">>), FALSE),
     SummaryLine(TRUE, "summary", SomeString(<<"b">>), FALSE),
     SummaryLine(TRUE, "summary", NoString, FALSE),
     SummaryLine(FALSE, "summary", SomeString(<<"b">>), FALSE),
     SummaryLine(TRUE, "user", NoString, TRUE),
     SummaryLine(TRUE, "user", SomeString(<<"b">>), FALSE)}

RECURSIVE LastSummary(_, _, _)
\* a mutation of the first pass: the loop is not left at the first summary
LastSummary(lines, i, session_summary) ==
    IF i > Len(lines) THEN session_summary
    ELSE LastSummary(lines, i + 1,
                     IF lines[i].parses /\ lines[i].type = "summary"
                     THEN lines[i].summary ELSE session_summary)
RECURSIVE FirstPass(_, _, _)
\* the first pass: session_summary = parsed.summary of the first line that
\* parses and has type summary, then break
FirstPass(lines, i, session_summary) ==
    IF i > Len(lines) THEN session_summary
    ELSE IF lines[i].parses /\ lines[i].type = "summary" THEN lines[i].summary
    ELSE FirstPass(lines, i + 1, session_summary)

RECURSIVE SecondPass(_, _, _)
\* the second pass: a document with session_summary.clone().unwrap_or_default()
\* for every line that is indexed
SecondPass(lines, i, session_summary) ==
    IF i > Len(lines) THEN <<>>
    ELSE (IF lines[i].parses /\ lines[i].type \in {"user", "assistant"} /\ lines[i].doc
          THEN <<[line |-> i, session_summary |-> UnwrapOrDefault(session_summary)]>>
          ELSE <<>>)
         \o SecondPass(lines, i + 1, session_summary)

SummaryParked ==
    /\ transcript = <<>>
    /\ documents = <<>>
    /\ passes = 0

\* the body of the loop for one transcript file
IndexTranscript ==
    /\ UNCHANGED outsideSummary
    /\ passes = 0
    /\ passes' = 2
    /\ documents' = SecondPass(transcript, 1, FirstPass(transcript, 1, NoString))
    /\ UNCHANGED transcript

-----------------------------------------------------------------------------
(* workspace_store: calls one after another.  WORKSPACE_LOCK is held from    *)
(* the load to the save of with_workspace_mut, so a call is one step.        *)

\* calls per behaviour
MaxCalls == 5

\* an id that no project and no feature has
NoSuchId == <<"none">>

IdsOf(seq) == {seq[i].id : i \in DOMAIN seq}

\* the calls a client makes on a workspace: with the ids it holds and with an
\* id that is not there
CallsOn(data) ==
    LET projects == IdsOf(data.projects) \cup {NoSuchId}
        features(p) ==
            IF p = NoSuchId THEN {NoSuchId}
            ELSE IdsOf(data.projects[PositionOfId(data.projects, p)].features)
                     \cup {NoSuchId}
    IN {AddProject(path) : path \in {"/a", "/b"}}
       \cup UNION {{RemoveProject(p), SetActiveProject(p), CreateFeature(p),
                    TogglePanelShared(p, K1)} : p \in projects}
       \cup UNION {UNION {{DeleteFeature(p, f), SetActiveFeature(p, f),
                           AddPanelToFeature(p, f, Panel(K1, FALSE)),
                           RemovePanelFromFeature(p, f, K1)} : f \in features(p)}
                   : p \in projects}

\* the seq of the feature with the id
SeqOfFeature(data, id) ==
    LET all == UNION {{data.projects[p].features[f] :
                           f \in DOMAIN data.projects[p].features} :
                       p \in DOMAIN data.projects}
    IN (CHOOSE feature \in all : feature.id = id).seq

CallRecord(name, ok, after_failure) ==
    [name |-> name, ok |-> ok, after_failure |-> after_failure]

SequenceParked ==
    /\ workspace_json = NoWorkspaceFile
    /\ calls_made = 0
    /\ ids_drawn = 0
    /\ assigned = <<>>
    /\ last_call = CallRecord("none", TRUE, FALSE)

\* with_workspace_mut(f): load_workspace_internal()?, f(&mut data)?,
\* save_workspace_internal(&data) succeeds
MutateWorkspace ==
    /\ UNCHANGED outsideSequence
    /\ calls_made < MaxCalls
    /\ calls_made' = calls_made + 1
    /\ LET loaded == load_workspace_internal(workspace_json)
       IN \E o \in CallsOn(loaded.data) :
            LET result == Modify(o, loaded.data, ids_drawn + 1)
            IN IF result.kind = "ok"
               THEN /\ workspace_json' = WorkspaceFile(result.data)
                    /\ ids_drawn' = IF o.name \in {"add_project", "create_feature"}
                                    THEN ids_drawn + 1 ELSE ids_drawn
                    /\ assigned' =
                          IF o.name = "create_feature"
                          THEN Append(assigned,
                                      SeqOfFeature(result.data, NewId(ids_drawn + 1)))
                          ELSE assigned
                    /\ last_call' = CallRecord(o.name, TRUE, ~last_call.ok)
               ELSE /\ last_call' = CallRecord(o.name, FALSE, ~last_call.ok)
                    /\ UNCHANGED <<workspace_json, ids_drawn, assigned>>

\* with_workspace_mut(f): f returns Ok and save_workspace_internal(&data)?
\* returns the error of create_dir_all or of atomic_write_string
MutateSaveFails ==
    /\ UNCHANGED outsideSequence
    /\ calls_made < MaxCalls
    /\ calls_made' = calls_made + 1
    /\ LET loaded == load_workspace_internal(workspace_json)
       IN \E o \in CallsOn(loaded.data) :
            /\ Modify(o, loaded.data, ids_drawn + 1).kind = "ok"
            /\ last_call' = CallRecord(o.name, FALSE, ~last_call.ok)
    /\ UNCHANGED <<workspace_json, ids_drawn, assigned>>

-----------------------------------------------------------------------------
(* The environment: transcripts come and go, the process restarts *)

\* the user's ~/.claude/projects changes between and during builds; only a
\* build's scan reads it, so a change is taken at the latest moment it can
\* make a difference: when some build is about to scan
EnvProjects ==
    /\ UNCHANGED outsideSearch
    /\ \E b \in Builders : pc[b] = "scan"
    /\ \E p \in ProjectsStates :
          /\ p # projects_dir
          /\ projects_dir' = p
    /\ UNCHANGED <<SEARCH_INDEX, guard, index_dir, stats_file, pc, writer, ret,
                   midBuild, settled, calls>>

\* the application exits and starts again: statics are re-initialised, the
\* files stay
Restart ==
    /\ UNCHANGED outsideSearch
    /\ \E p \in Procs : pc[p] \in {"done", "panicked"}
    /\ SEARCH_INDEX' = None
    /\ guard' = "free"
    /\ pc' = [p \in Procs |-> "idle"]
    /\ writer' = [b \in Builders |-> NoWriter]
    /\ ret' = [p \in Procs |-> NoRet]
    /\ midBuild' = [s \in Searchers |-> {}]
    /\ settled' = Unsettled
    /\ UNCHANGED <<index_dir, projects_dir, stats_file, calls>>

-----------------------------------------------------------------------------
(* build_search_index *)

\* the command is called and its closure is handed to spawn_blocking, which
\* runs it on a free worker of the blocking pool: the first free one
BuildStart(b) ==
    /\ UNCHANGED outsideSearch
    /\ pc[b] \in {"idle", "done"}
    /\ \A o \in Builders : WorkerBefore(o, b) => Running(o)
    /\ calls < MaxBuilds
    /\ calls' = calls + 1
    /\ pc' = [pc EXCEPT ![b] = "remove"]
    /\ writer' = [writer EXCEPT ![b] = NoWriter]
    /\ ret' = [ret EXCEPT ![b] = NoRet]
    /\ settled' = Unsettled
    /\ UNCHANGED <<SEARCH_INDEX, guard, index_dir, projects_dir, stats_file, midBuild>>

\* if index_dir.exists() { fs::remove_dir_all(&index_dir)? }
BuildRemoveOld(b) ==
    /\ UNCHANGED outsideSearch
    /\ pc[b] = "remove"
    /\ index_dir' = NoDir
    /\ pc' = [pc EXCEPT ![b] = "mkdir"]
    /\ UNCHANGED <<SEARCH_INDEX, guard, projects_dir, stats_file, writer, ret,
                   midBuild, settled, calls>>

\* fs::create_dir_all(&index_dir)?
BuildCreateDir(b) ==
    /\ UNCHANGED outsideSearch
    /\ pc[b] = "mkdir"
    /\ index_dir' = IF index_dir.exists THEN index_dir ELSE EmptyDir
    /\ pc' = [pc EXCEPT ![b] = "create"]
    /\ UNCHANGED <<SEARCH_INDEX, guard, projects_dir, stats_file, writer, ret,
                   midBuild, settled, calls>>

\* Index::create_in_dir(&index_dir, schema)? and index.writer(50_000_000)?:
\* a fresh, empty index in a directory that holds none yet
BuildCreateIndex(b) ==
    /\ UNCHANGED outsideSearch
    /\ pc[b] = "create"
    /\ index_dir.exists /\ ~index_dir.meta
    /\ index_dir' = IndexOf(calls, {})
    /\ writer' = [writer EXCEPT ![b] = [gen |-> calls, docs |-> {}, seen |-> {}]]
    /\ pc' = [pc EXCEPT ![b] = "scan"]
    /\ UNCHANGED <<SEARCH_INDEX, guard, projects_dir, stats_file, ret,
                   midBuild, settled, calls>>

\* if !projects_dir.exists() { return Ok(0); }
BuildNoProjects(b) ==
    /\ UNCHANGED outsideSearch
    /\ pc[b] = "scan"
    /\ ~projects_dir.exists
    /\ pc' = [pc EXCEPT ![b] = "done"]
    /\ ret' = [ret EXCEPT ![b] = OkCount(0)]
    /\ writer' = [writer EXCEPT ![b] = NoWriter]
    /\ midBuild' = [s \in Searchers |-> midBuild[s] \ {b}]
    /\ settled' = IF \A o \in Builders \ {b} : ~Running(o)
                  THEN [valid |-> TRUE, seen |-> {}] ELSE Unsettled
    /\ UNCHANGED <<SEARCH_INDEX, guard, index_dir, projects_dir, stats_file, calls>>

\* the loop over the project directories and their transcripts: one document
\* per message, added to the IndexWriter (not yet visible to readers)
BuildScan(b) ==
    /\ UNCHANGED outsideSearch
    /\ pc[b] = "scan"
    /\ projects_dir.exists
    /\ writer' = [writer EXCEPT ![b].docs = projects_dir.files,
                               ![b].seen = projects_dir.files]
    /\ pc' = [pc EXCEPT ![b] = "commit"]
    /\ UNCHANGED <<SEARCH_INDEX, guard, index_dir, projects_dir, stats_file, ret,
                   midBuild, settled, calls>>

\* index_writer.commit()?: the writer's segments and a meta.json that names
\* them are written under the directory's path
BuildCommit(b) ==
    /\ UNCHANGED outsideSearch
    /\ pc[b] = "commit"
    /\ index_dir.exists
    /\ index_dir' = IndexOf(writer[b].gen, writer[b].docs)
    /\ pc' = [pc EXCEPT ![b] = "install"]
    /\ UNCHANGED <<SEARCH_INDEX, guard, projects_dir, stats_file, writer, ret,
                   midBuild, settled, calls>>

\* let mut guard = SEARCH_INDEX.lock()?; *guard = Some(SearchIndex {..})
BuildInstall(b) ==
    /\ UNCHANGED outsideSearch
    /\ pc[b] = "install"
    /\ guard = "free"
    /\ guard' = b
    /\ SEARCH_INDEX' = Bound(writer[b].gen, "build")
    /\ pc' = [pc EXCEPT ![b] = "stats"]
    /\ midBuild' = [s \in Searchers |-> midBuild[s] \ {b}]
    /\ UNCHANGED <<index_dir, projects_dir, stats_file, writer, ret, settled, calls>>

\* SEARCH_INDEX.lock() on a mutex whose holder panicked: map_err(..)? returns
\* Err after the commit, before the context is bound and the stats written
BuildLockPoisoned(b) ==
    /\ UNCHANGED outsideSearch
    /\ pc[b] = "install"
    /\ guard = "poisoned"
    /\ pc' = [pc EXCEPT ![b] = "done"]
    /\ ret' = [ret EXCEPT ![b] = Err("poisoned")]
    /\ writer' = [writer EXCEPT ![b] = NoWriter]
    /\ midBuild' = [s \in Searchers |-> midBuild[s] \ {b}]
    /\ UNCHANGED <<SEARCH_INDEX, guard, index_dir, projects_dir, stats_file,
                   settled, calls>>

\* fs::write(&stats_path, ..).ok(); Ok(indexed_count); the guard is dropped
BuildFinish(b) ==
    /\ UNCHANGED outsideSearch
    /\ pc[b] = "stats"
    /\ \/ stats_file' = StatsOf(writer[b].gen, writer[b].seen)
       \/ UNCHANGED stats_file
    /\ guard' = "free"
    /\ pc' = [pc EXCEPT ![b] = "done"]
    /\ ret' = [ret EXCEPT ![b] = OkCount(Cardinality(writer[b].docs))]
    /\ settled' = IF \A o \in Builders \ {b} : ~Running(o)
                  THEN [valid |-> TRUE, seen |-> writer[b].seen] ELSE Unsettled
    /\ writer' = [writer EXCEPT ![b] = NoWriter]
    /\ UNCHANGED <<SEARCH_INDEX, index_dir, projects_dir, midBuild, calls>>

\* a mutation of the failure path: the slot is cleared
BuildFailClearingSlot(b) ==
    /\ UNCHANGED outsideSearch
    /\ pc[b] \in {"remove", "mkdir", "create", "scan", "commit"}
    /\ pc' = [pc EXCEPT ![b] = "done"]
    /\ ret' = [ret EXCEPT ![b] = Err("io")]
    /\ writer' = [writer EXCEPT ![b] = NoWriter]
    /\ midBuild' = [s \in Searchers |-> midBuild[s] \ {b}]
    /\ SEARCH_INDEX' = None
    /\ UNCHANGED <<guard, index_dir, projects_dir, stats_file, settled, calls>>

\* a mutation of the failure path: the stats artifact is removed
BuildFailRemovingStats(b) ==
    /\ UNCHANGED outsideSearch
    /\ pc[b] \in {"remove", "mkdir", "create", "scan", "commit"}
    /\ pc' = [pc EXCEPT ![b] = "done"]
    /\ ret' = [ret EXCEPT ![b] = Err("io")]
    /\ writer' = [writer EXCEPT ![b] = NoWriter]
    /\ midBuild' = [s \in Searchers |-> midBuild[s] \ {b}]
    /\ stats_file' = NoStats
    /\ UNCHANGED <<SEARCH_INDEX, guard, index_dir, projects_dir, settled, calls>>

\* any `?` before the lock is taken: the closure returns Err and touches
\* nothing more
BuildFail(b) ==
    /\ UNCHANGED outsideSearch
    /\ pc[b] \in {"remove", "mkdir", "create", "scan", "commit"}
    /\ pc' = [pc EXCEPT ![b] = "done"]
    /\ ret' = [ret EXCEPT ![b] = Err("io")]
    /\ writer' = [writer EXCEPT ![b] = NoWriter]
    /\ midBuild' = [s \in Searchers |-> midBuild[s] \ {b}]
    /\ UNCHANGED <<SEARCH_INDEX, guard, index_dir, projects_dir, stats_file,
                   settled, calls>>

-----------------------------------------------------------------------------
(* search_chats *)

\* what a reader opened on the bound Index finds: the Index addresses its
\* directory by path and a new reader loads the meta.json that is there
ReaderOpens == index_dir.exists /\ index_dir.meta

Matching(q) == {d \in index_dir.docs : q = MatchAll}

\* the arguments of a call: a query with the default limit, and a well-formed
\* query with limit 0
SearchArgs ==
    {[query |-> q, limit |-> NoLimit] : q \in Queries}
    \cup {[query |-> MatchAll, limit |-> SomeLimit(0)]}

\* the command is called; a call that panicked unwound its thread, and the
\* command can be called again
SearchStart(s) ==
    /\ UNCHANGED outsideSearch
    /\ pc[s] \in {"idle", "done", "panicked"}
    /\ \E a \in SearchArgs :
          ret' = [ret EXCEPT ![s] = [kind |-> "none", query |-> a.query, limit |-> a.limit]]
    /\ pc' = [pc EXCEPT ![s] = "bind"]
    /\ midBuild' = [midBuild EXCEPT ![s] = {b \in Builders : InProgress(b)}]
    /\ UNCHANGED <<SEARCH_INDEX, guard, index_dir, projects_dir, stats_file,
                   writer, settled, calls>>

\* an open that does not tell a missing directory from a broken index
OpenWithoutExistsCheck ==
    IF index_dir.exists /\ index_dir.meta
    THEN [ok |-> TRUE, ctx |-> Bound(index_dir.gen, "open"), msg |-> ""]
    ELSE [ok |-> FALSE, ctx |-> None, msg |-> "open"]

\* the body of `if guard.is_none()`: the "not built" error when the directory
\* is missing, else Index::open_in_dir(&index_dir)?, which needs a meta.json
OpenIndex ==
    IF ~index_dir.exists THEN [ok |-> FALSE, ctx |-> None, msg |-> NotBuilt]
    ELSE IF ~index_dir.meta THEN [ok |-> FALSE, ctx |-> None, msg |-> "open"]
    ELSE [ok |-> TRUE, ctx |-> Bound(index_dir.gen, "open"), msg |-> ""]

\* SEARCH_INDEX.lock()?; if guard.is_none() { .. open_in_dir .. }
SearchBind(s) ==
    /\ UNCHANGED outsideSearch
    /\ pc[s] = "bind"
    /\ guard = "free"
    /\ IF SEARCH_INDEX.bound
       THEN /\ guard' = s
            /\ pc' = [pc EXCEPT ![s] = "query"]
            /\ UNCHANGED <<SEARCH_INDEX, ret>>
       ELSE IF OpenIndex.ok
       THEN /\ guard' = s
            /\ SEARCH_INDEX' = OpenIndex.ctx
            /\ pc' = [pc EXCEPT ![s] = "query"]
            /\ UNCHANGED ret
       ELSE /\ guard' = "free"
            /\ pc' = [pc EXCEPT ![s] = "done"]
            /\ ret' = [ret EXCEPT ![s] = Err(OpenIndex.msg)]
            /\ UNCHANGED SEARCH_INDEX
    /\ midBuild' = IF pc'[s] = "done" THEN [midBuild EXCEPT ![s] = {}] ELSE midBuild
    /\ UNCHANGED <<index_dir, projects_dir, stats_file, writer, settled, calls>>

\* SEARCH_INDEX.lock() on a mutex whose holder panicked: a PoisonError, which
\* map_err(..)? returns as Err
SearchLockPoisoned(s) ==
    /\ UNCHANGED outsideSearch
    /\ pc[s] = "bind"
    /\ guard = "poisoned"
    /\ pc' = [pc EXCEPT ![s] = "done"]
    /\ ret' = [ret EXCEPT ![s] = Err("poisoned")]
    /\ midBuild' = [midBuild EXCEPT ![s] = {}]
    /\ UNCHANGED <<SEARCH_INDEX, guard, index_dir, projects_dir, stats_file, writer,
                   settled, calls>>

\* the call reaches TopDocs::with_limit(max_results) with max_results = 0
ReachesLimitZero(s) ==
    /\ ReaderOpens
    /\ ret[s].query # Malformed
    /\ (IF ret[s].limit.some THEN ret[s].limit.n ELSE DefaultLimit) = 0

\* the reader, the query parser, the search and the result list; the guard
\* is dropped on return.  TopDocs::with_limit(0) panics: the thread unwinds
\* with the guard held, which poisons the mutex
SearchQuery(s) ==
    /\ UNCHANGED outsideSearch
    /\ pc[s] = "query"
    /\ guard' = IF ReachesLimitZero(s) THEN "poisoned" ELSE "free"
    /\ pc' = [pc EXCEPT ![s] = IF ReachesLimitZero(s) THEN "panicked" ELSE "done"]
    /\ ret' = [ret EXCEPT ![s] =
                 IF ~ReaderOpens THEN Err("reader")
                 ELSE IF ret[s].query = Malformed THEN Err("query")
                 ELSE IF ReachesLimitZero(s) THEN Panicked
                 ELSE OkHits(Matching(ret[s].query))]
    /\ midBuild' = [midBuild EXCEPT ![s] = {}]
    /\ UNCHANGED <<SEARCH_INDEX, index_dir, projects_dir, stats_file, writer,
                   settled, calls>>

-----------------------------------------------------------------------------
Init ==
    /\ SEARCH_INDEX = None
    /\ guard = "free"
    /\ index_dir = NoDir
    /\ projects_dir \in ProjectsStates
    /\ stats_file = NoStats
    /\ pc = [p \in Procs |-> "idle"]
    /\ writer = [b \in Builders |-> NoWriter]
    /\ ret = [p \in Procs |-> NoRet]
    /\ midBuild = [s \in Searchers |-> {}]
    /\ settled = Unsettled
    /\ calls = 0
    /\ ExtractParked
    /\ WeekParked
    /\ AliasParked
    /\ ScanParked
    /\ FilterParked
    /\ TokenizeParked
    /\ AtomicParked
    /\ PathParked
    /\ WorkspaceParked
    /\ PtyParked
    /\ SummaryParked
    /\ SequenceParked

Next ==
    \/ EnvProjects
    \/ Restart
    \/ \E b \in Builders :
          \/ BuildStart(b)
          \/ BuildRemoveOld(b)
          \/ BuildCreateDir(b)
          \/ BuildCreateIndex(b)
          \/ BuildNoProjects(b)
          \/ BuildScan(b)
          \/ BuildCommit(b)
          \/ BuildInstall(b)
          \/ BuildLockPoisoned(b)
          \/ BuildFinish(b)
          \/ BuildFail(b)
    \/ \E s \in Searchers :
          \/ SearchStart(s)
          \/ SearchBind(s)
          \/ SearchLockPoisoned(s)
          \/ SearchQuery(s)

Spec == Init /\ [][Next]_vars

SearchParked ==
    /\ SEARCH_INDEX = None
    /\ guard = "free"
    /\ index_dir = NoDir
    /\ projects_dir = Absent
    /\ stats_file = NoStats
    /\ pc = [p \in Procs |-> "idle"]
    /\ writer = [b \in Builders |-> NoWriter]
    /\ ret = [p \in Procs |-> NoRet]
    /\ midBuild = [s \in Searchers |-> {}]
    /\ settled = Unsettled
    /\ calls = 0

InitExtract ==
    /\ value \in Values
    /\ extracted = Pending
    /\ SearchParked
    /\ WeekParked
    /\ AliasParked
    /\ ScanParked
    /\ FilterParked
    /\ TokenizeParked
    /\ AtomicParked
    /\ PathParked
    /\ WorkspaceParked
    /\ PtyParked
    /\ SummaryParked
    /\ SequenceParked

NextExtract == Extract

SpecExtract == InitExtract /\ [][NextExtract]_vars

\* two records, the second at most 13 days after the first
InitWeek ==
    /\ stamps \in {<<t1, t2>> : t1 \in Stamps, t2 \in Stamps}
    /\ DayNumber(stamps[2]) - DayNumber(stamps[1]) \in 0..13
    /\ week_stats = NoCounts
    /\ counted = 0
    /\ SearchParked
    /\ ExtractParked
    /\ AliasParked
    /\ ScanParked
    /\ FilterParked
    /\ TokenizeParked
    /\ AtomicParked
    /\ PathParked
    /\ WorkspaceParked
    /\ PtyParked
    /\ SummaryParked
    /\ SequenceParked

NextWeek == CountRecord

SpecWeek == InitWeek /\ [][NextWeek]_vars

InitAlias ==
    /\ commands_dir \in CommandsDirs
    /\ walk = <<>>
    /\ alias_map = NoAliases
    /\ command_stats = NoStatsYet
    /\ marker = NoMarker
    /\ invocations = 0
    /\ SearchParked
    /\ ExtractParked
    /\ WeekParked
    /\ ScanParked
    /\ FilterParked
    /\ TokenizeParked
    /\ AtomicParked
    /\ PathParked
    /\ WorkspaceParked
    /\ PtyParked
    /\ SummaryParked
    /\ SequenceParked

NextAlias == AliasScanEntry \/ CountInvocation

SpecAlias == InitAlias /\ [][NextAlias]_vars

\* a build that has reached its scan, with or without an alias registered
InitScan ==
    /\ entry = NoEntry
    /\ visited = 0
    /\ indexed_count = 0
    /\ added = 0
    /\ scan_pc = "scan"
    /\ scan_ret = NoRet
    /\ alias_map \in {NoAliases, [a \in {<<"baz">>} |-> <<"foo", ":", "bar">>]}
    /\ command_stats = NoStatsYet
    /\ commands_dir = NoCommandsDir
    /\ walk = <<>>
    /\ marker = NoMarker
    /\ invocations = 0
    /\ SearchParked
    /\ ExtractParked
    /\ WeekParked
    /\ FilterParked
    /\ TokenizeParked
    /\ AtomicParked
    /\ PathParked
    /\ WorkspaceParked
    /\ PtyParked
    /\ SummaryParked
    /\ SequenceParked

NextScan == VisitEntry \/ EndIteration \/ ScanFail \/ ScanReturn

SpecScan == InitScan /\ [][NextScan]_vars

InitFilter ==
    /\ matches \in SeqsUpTo(ProjectIds, MaxDocs)
    /\ limit \in Limits
    /\ results = [f \in Filters |-> NotCalled]
    /\ ExtractParked
    /\ WeekParked
    /\ AliasParked
    /\ ScanParked
    /\ SearchParked
    /\ TokenizeParked
    /\ AtomicParked
    /\ PathParked
    /\ WorkspaceParked
    /\ PtyParked
    /\ SummaryParked
    /\ SequenceParked

NextFilter == \E f \in Filters : SearchFiltered(f)

SpecFilter == InitFilter /\ [][NextFilter]_vars

InitTokenize ==
    /\ text \in Texts
    /\ words \in Cuts(text)
    /\ stream = NoStream
    /\ ExtractParked
    /\ WeekParked
    /\ AliasParked
    /\ ScanParked
    /\ FilterParked
    /\ SearchParked
    /\ AtomicParked
    /\ PathParked
    /\ WorkspaceParked
    /\ PtyParked
    /\ SummaryParked
    /\ SequenceParked

NextTokenize == Tokenize

SpecTokenize == InitTokenize /\ [][NextTokenize]_vars

InitAtomic ==
    /\ path_file \in Files
    /\ previous = path_file
    /\ tmp_file = NoFile
    /\ content \in FileContents
    /\ aw_pc = "create"
    /\ aw_ret = NoRet
    /\ ExtractParked
    /\ WeekParked
    /\ AliasParked
    /\ ScanParked
    /\ FilterParked
    /\ TokenizeParked
    /\ SearchParked
    /\ PathParked
    /\ WorkspaceParked
    /\ PtyParked
    /\ SummaryParked
    /\ SequenceParked

NextAtomic == AtomicCreate \/ AtomicWrite \/ AtomicSync \/ AtomicRename \/ AtomicFail \/ AtomicCrash

SpecAtomic == InitAtomic /\ [][NextAtomic]_vars

InitPath ==
    /\ project_path \in Paths
    /\ on_disk \in SUBSET Probed(encode_project_path(project_path))
    /\ encoded_id = <<>>
    /\ decoded = NotDecoded
    /\ ExtractParked
    /\ WeekParked
    /\ AliasParked
    /\ ScanParked
    /\ FilterParked
    /\ TokenizeParked
    /\ AtomicParked
    /\ SearchParked
    /\ WorkspaceParked
    /\ PtyParked
    /\ SummaryParked
    /\ SequenceParked

NextPath == EncodePath \/ DecodePath

SpecPath == InitPath /\ [][NextPath]_vars

InitWorkspace ==
    /\ ws_file \in WorkspaceFiles
    /\ ws_lock = Unlocked
    /\ ws_pc = [c \in Calls |-> "idle"]
    /\ ws_op = [c \in Calls |-> NoOperation]
    /\ ws_data = [c \in Calls |-> NoData]
    /\ ws_ret = [c \in Calls |-> NoData]
    /\ ExtractParked
    /\ WeekParked
    /\ AliasParked
    /\ ScanParked
    /\ FilterParked
    /\ TokenizeParked
    /\ AtomicParked
    /\ PathParked
    /\ SearchParked
    /\ PtyParked
    /\ SummaryParked
    /\ SequenceParked

NextWorkspace ==
    \/ \E c \in Calls, o \in Operations : WorkspaceCall(c, o)
    \/ \E c \in Calls : WriteLock(c)
    \/ \E c \in Calls : ReadLock(c)
    \/ \E c \in Calls : ReadWorkspace(c)
    \/ \E c \in Calls : ModifyWorkspace(c)
    \/ \E c \in Calls : SaveWorkspaceInternal(c)
    \/ \E c \in Calls : SaveWorkspaceFails(c)

SpecWorkspace == InitWorkspace /\ [][NextWorkspace]_vars

InitPty ==
    /\ PTY_SESSIONS = NoSession
    /\ PTY_CONTROLS = NoSession
    /\ PTY_MASTERS = NoSession
    /\ PTY_SCROLLBACK = NoBuffer
    /\ PTY_SCROLLBACK_LAST_SAVE = FALSE
    /\ PTY_SCROLLBACK_DIRTY = FALSE
    /\ scrollback_file = NoBuffer
    /\ running = [k \in Sessions |-> FALSE]
    /\ reader_pc = [k \in Sessions |-> "unborn"]
    /\ emitted = 0
    /\ appended = <<>>
    /\ pty_last = NoOp
    /\ ExtractParked
    /\ WeekParked
    /\ AliasParked
    /\ ScanParked
    /\ FilterParked
    /\ TokenizeParked
    /\ AtomicParked
    /\ PathParked
    /\ WorkspaceParked
    /\ SearchParked
    /\ SummaryParked
    /\ SequenceParked

NextPty ==
    \/ CreateSession
    \/ KillSession
    \/ \E r \in Sessions : LoopCheck(r)
    \/ \E r \in Sessions : ReadChunk(r)
    \/ \E r \in Sessions : ReadEnds(r)
    \/ \E r \in Sessions : ReaderCleanup(r)

SpecPty == InitPty /\ [][NextPty]_vars

InitSummary ==
    /\ transcript \in SeqsUpTo(SummaryLines, MaxFileLines)
    /\ documents = <<>>
    /\ passes = 0
    /\ ExtractParked
    /\ WeekParked
    /\ AliasParked
    /\ ScanParked
    /\ FilterParked
    /\ TokenizeParked
    /\ AtomicParked
    /\ PathParked
    /\ WorkspaceParked
    /\ PtyParked
    /\ SearchParked
    /\ SequenceParked

NextSummary == IndexTranscript

SpecSummary == InitSummary /\ [][NextSummary]_vars

InitSequence ==
    /\ workspace_json \in {NoWorkspaceFile, WorkspaceFile(TwoProjects(NoCounter))}
    /\ calls_made = 0
    /\ ids_drawn = 0
    /\ assigned = IF workspace_json = NoWorkspaceFile THEN <<>> ELSE <<1, 2>>
    /\ last_call = CallRecord("none", TRUE, FALSE)
    /\ ExtractParked
    /\ WeekParked
    /\ AliasParked
    /\ ScanParked
    /\ FilterParked
    /\ TokenizeParked
    /\ AtomicParked
    /\ PathParked
    /\ WorkspaceParked
    /\ PtyParked
    /\ SummaryParked
    /\ SearchParked

NextSequence ==
    \/ MutateWorkspace
    \/ MutateSaveFails

SpecSequence == InitSequence /\ [][NextSequence]_vars

-----------------------------------------------------------------------------
(* Claims about the search service, checked under Spec *)

\* C1: a search_chats call made while a build is in progress takes the lock
\* and opens, binds or reads the index only after that build has installed
\* its context or failed.
C1_SearchWaitsForBuild ==
    [][\A s \in Searchers :
          (pc[s] = "bind" /\ pc'[s] \in {"query", "done"}) => midBuild[s] = {}]_vars

\* C2: at most one build at a time is between removing the old index
\* directory and installing its new context.
C2_OneBuildAtATime == Cardinality({b \in Builders : InProgress(b)}) <= 1

\* C3: once a build has returned success and no build has run since, every
\* hit a search returns is a message of a transcript that was on disk at that
\* build.
C3_NoStaleHits ==
    [][\A s \in Searchers :
          (pc[s] = "query" /\ pc'[s] = "done" /\ ret'[s].kind = "ok" /\ settled.valid)
             => ret'[s].hits \subseteq settled.seen]_vars

\* C4: a build that returns success leaves SEARCH_INDEX bound to the index
\* that this very call created.
C4_SuccessInstallsOwnIndex ==
    [][\A b \in Builders :
          (pc[b] # "done" /\ pc'[b] = "done" /\ ret'[b].kind = "ok")
             => SEARCH_INDEX' = Bound(writer[b].gen, "build")]_vars

\* C5: with SEARCH_INDEX unbound, search_chats returns the "not built" error
\* without retrieving and leaves it unbound when the index directory does not
\* exist, and binds it by opening the index and goes on to answer the query
\* when the directory holds an index; the answer is what the index on disk
\* holds for the query.
C5_LazyBind ==
    [][\A s \in Searchers :
          /\ (pc[s] = "bind" /\ pc'[s] \in {"query", "done"} /\ ~SEARCH_INDEX.bound) =>
                IF ~index_dir.exists
                THEN pc'[s] = "done" /\ ret'[s] = Err(NotBuilt) /\ SEARCH_INDEX' = None
                ELSE index_dir.meta =>
                        /\ pc'[s] = "query"
                        /\ SEARCH_INDEX' = Bound(index_dir.gen, "open")
          /\ (pc[s] = "query" /\ pc'[s] = "done" /\ index_dir.meta
                /\ ret[s].query = MatchAll) =>
                ret'[s] = OkHits(index_dir.docs)]_vars

\* C5 witness: after a restart a search has bound the slot by opening the
\* index a build left on disk, and has returned its documents.
C5_Witness ==
    /\ SEARCH_INDEX.bound /\ SEARCH_INDEX.via = "open"
    /\ \E s \in Searchers :
          pc[s] = "done" /\ ret[s].kind = "ok" /\ ret[s].hits # {}

\* C12: every build_search_index call that returns success leaves the
\* command-stats artifact holding exactly what that build's scan gathered.
C12_StatsOfThisBuild ==
    [][\A b \in Builders :
          (pc[b] # "done" /\ pc'[b] = "done" /\ ret'[b].kind = "ok")
              => stats_file' = StatsOf(writer[b].gen, writer[b].seen)]_vars

\* C13: a step of a build_search_index call that returns an error, and every
\* step other than the last one of a call that returns success, leaves the
\* command-stats artifact as it is.
C13_FailedBuildKeepsStats ==
    [][stats_file' # stats_file =>
          \E b \in Builders : pc[b] = "stats" /\ pc'[b] = "done" /\ ret'[b].kind = "ok"]_vars

\* C13 witness: a build returned an error and the artifact of an earlier
\* build is in place
C13_Witness ==
    /\ stats_file.present
    /\ \E b \in Builders :
          /\ pc[b] = "done"
          /\ ret[b].kind = "err"
          /\ stats_file.gen < calls

\* C15: a search_chats call that has taken the lock ends by returning a
\* result list or an error, with the lock released.
C15_SearchReleasesLock ==
    [][\A s \in Searchers :
          (pc[s] = "query" /\ pc'[s] \in {"done", "panicked"})
              => /\ pc'[s] = "done"
                 /\ ret'[s].kind \in {"ok", "err"}
                 /\ guard' = "free"]_vars

\* C16: once two overlapping build_search_index calls have both returned
\* success, the bound context, the on-disk index and the command-stats
\* artifact come from one and the same build.
C16_LastWriterWins ==
    (\A b \in Builders : pc[b] = "done" /\ ret[b].kind = "ok")
        => /\ SEARCH_INDEX.bound
           /\ index_dir.exists /\ index_dir.meta
           /\ SEARCH_INDEX.gen = index_dir.gen
           /\ stats_file.present
           /\ stats_file.gen = index_dir.gen

-----------------------------------------------------------------------------
(* Claims about extract_content_with_meta, checked under SpecExtract *)

IsTextBlock(item) ==
    item.object /\ item.type = StrField("text") /\ item.text.has

RECURSIVE Joined(_)
\* the strings of `parts`, in order, with a newline between neighbours
Joined(parts) ==
    IF parts = <<>> THEN EmptyStr
    ELSE IF Len(parts) = 1 THEN parts[1]
    ELSE parts[1] \o <<Newline>> \o Joined(Tail(parts))

\* C8: a plain string comes back unchanged with the tool flag false; of a
\* list come back the texts of exactly its blocks of type text, in order,
\* joined by a newline, with the tool flag true iff some block is a tool_use
\* or tool_result; a list without text blocks, a missing value and any other
\* shape give the empty string.
C8_ExtractContent ==
    extracted # Pending =>
        /\ value.kind = "string" =>
              extracted = [text |-> value.str, has_tool |-> FALSE]
        /\ value.kind = "array" =>
              LET texts == SelectSeq(value.arr, IsTextBlock)
              IN /\ extracted.text = Joined([i \in 1..Len(texts) |-> texts[i].text.str])
                 /\ extracted.has_tool =
                       (\E i \in 1..Len(value.arr) :
                           /\ value.arr[i].object
                           /\ value.arr[i].type \in
                                 {StrField("tool_use"), StrField("tool_result")})
                 /\ (texts = <<>> => extracted.text = EmptyStr)
        /\ value.kind \in {"none", "other"} =>
              extracted = [text |-> EmptyStr, has_tool |-> FALSE]

\* C8 witness: a tool_use block followed by a text block gives the text and
\* the tool flag.
C8_Witness ==
    /\ extracted # Pending
    /\ value = ArrayValue(<<Block(StrField("tool_use"), NoField),
                            Block(StrField("text"), StrField(<<"a">>))>>)
    /\ extracted = [text |-> <<"a">>, has_tool |-> TRUE]

-----------------------------------------------------------------------------
(* Claims about week bucketing, checked under SpecWeek *)

\* the Monday-to-Sunday week a date lies in, counted from 0001-01-01
WeekIndex(t) == DayNumber(t) \div 7

\* C10: two record timestamps in the same ISO week increment the same week
\* key, also when the week spans a month or a year boundary, and two in
\* adjacent ISO weeks increment different keys.
C10_WeekBuckets ==
    counted = 2 =>
        /\ WeekIndex(stamps[1]) = WeekIndex(stamps[2])
              => Cardinality(DOMAIN week_stats) = 1
        /\ WeekIndex(stamps[2]) = WeekIndex(stamps[1]) + 1
              => Cardinality(DOMAIN week_stats) = 2

-----------------------------------------------------------------------------
(* Claims about alias resolution, checked under SpecAlias *)

\* the week key of the records counted under SpecAlias
FirstWeek == <<"2", "0", "2", "4", "-", "W", "0", "1">>
\* the count in the week bucket of a name
BucketCount(stats, name) ==
    IF name \in DOMAIN stats /\ FirstWeek \in DOMAIN stats[name]
    THEN stats[name][FirstWeek] ELSE 0
\* the step added one to the bucket of name and changed no other bucket
CountedUnder(name) ==
    /\ BucketCount(command_stats', name) = BucketCount(command_stats, name) + 1
    /\ \A n \in (DOMAIN command_stats \cup DOMAIN command_stats') \ {name} :
          BucketCount(command_stats', n) = BucketCount(command_stats, n)
\* the canonical name the definition files are known by
NameOfFile(f) == IF f.path = FooBar THEN <<"foo", ":", "bar">> ELSE <<"zed">>
\* file f is a definition file whose frontmatter has an aliases line that
\* lists n, quoted or not, with or without a leading "/": n stands in the
\* line after an optional quote and an optional "/", at the start of the
\* list or after a comma and its blank, and an optional quote and then a
\* comma or the end of the line follow it
DeclaresAlias(f, n) ==
    /\ f.path[Len(f.path)] = ".md" /\ f.readable /\ f.opens /\ f.closes
    /\ \E k \in 1..Len(f.fm) :
          LET line == f.fm[k]
          IN /\ line[1] = "aliases:"
             /\ \E i \in 2..Len(line) :
                   LET a == IF line[i - 1] = Slash THEN i - 1 ELSE i
                       b == IF line[a - 1] \in {DoubleQuote, SingleQuote} THEN a - 1 ELSE a
                       c == IF i < Len(line) /\ line[i + 1] \in {DoubleQuote, SingleQuote}
                            THEN i + 1 ELSE i
                   IN /\ line[i] = n
                      /\ line[b - 1] \in {"aliases:", " ", Comma}
                      /\ c = Len(line) \/ line[c + 1] = Comma
Declarers(n) == {f \in commands_dir.files : DeclaresAlias(f, n)}
\* the position of a file in the walk
WalkIndex(f) == CHOOSE i \in 1..Len(walk) : walk[i] = f.path

\* C9 as stated: every marker for /baz is counted under the canonical name of
\* a definition file that declares alias baz, never under baz; a name that
\* is no registered alias is counted under its own name.
C9_AliasCountedUnderFile ==
    [][invocations' = invocations + 1 =>
          LET n == marker'[2]
              declarers == Declarers(n)
          IN /\ \A f \in declarers : CountedUnder(NameOfFile(f))
             /\ declarers = {} => CountedUnder(<<n>>)]_vars

\* C9 amended: every marker for /baz is counted under the canonical name of
\* the definition file that declares alias baz and was walked last among
\* those that do, never under baz; a name that no definition file declares
\* is counted under its own name.
C9_AliasCountedUnderLastFile ==
    [][invocations' = invocations + 1 =>
          LET n == marker'[2]
              declarers == Declarers(n)
          IN /\ \A f \in declarers :
                   (\A g \in declarers : WalkIndex(g) <= WalkIndex(f))
                       => CountedUnder(NameOfFile(f))
             /\ declarers = {} => CountedUnder(<<n>>)]_vars

\* C9 witness: foo/bar.md lists "/baz, /qux" inside one pair of quotes, zed.md
\* declares baz too and was walked first; a marker for /baz and one for /qux
\* have been counted, both under foo:bar
C9_Witness ==
    /\ invocations = 2
    /\ marker = <<Slash, "qux">>
    /\ walk = <<Zed, FooBar>>
    /\ \E f \in commands_dir.files :
          /\ f.path = FooBar
          /\ f.fm = <<OtherLine, <<"aliases:", " ", DoubleQuote, Slash, "baz", Comma, " ",
                                   Slash, "qux", DoubleQuote>>>>
    /\ \E g \in commands_dir.files : g.path # FooBar /\ DeclaresAlias(g, "baz")
    /\ BucketCount(command_stats, <<"foo", ":", "bar">>) = 2
    /\ DOMAIN command_stats = {<<"foo", ":", "bar">>}

-----------------------------------------------------------------------------
(* Claims about the transcript scan, checked under SpecScan *)

\* the entry is a readable file of a project directory whose name ends in
\* ".jsonl" and does not start with "agent-"
ScannedTranscript(e) ==
    /\ e.kind = "file"
    /\ e.readable
    /\ e.name[Len(e.name)] = ".jsonl"
    /\ e.name[1] # "agent-"
\* the line is a record of type user or assistant that carries a message, is
\* not flagged isMeta, and whose extracted text is non-empty
MessageRecord(l) ==
    /\ l.parses
    /\ l.type = "user" \/ l.type = "assistant"
    /\ l.message.present
    /\ l.is_meta # SomeBool(TRUE)
    /\ extract_content_with_meta(l.message.content).text # <<>>
MessageRecords(e) ==
    IF ScannedTranscript(e)
    THEN Cardinality({i \in 1..Len(e.content) : MessageRecord(e.content[i])})
    ELSE 0

\* C6: every entry the scan passes adds as many documents as it has message
\* records (type user or assistant, with a message, not isMeta, non-empty
\* extracted text) when it is a scanned transcript and none otherwise, the
\* counter follows the documents added, and a successful build returns the
\* number of documents added.
C6_ReturnsDocumentCount ==
    [][/\ visited' = visited + 1 =>
              /\ added' = added + MessageRecords(entry')
              /\ indexed_count' = added'
       /\ (scan_pc = "scan" /\ scan_pc' = "done" /\ scan_ret'.kind = "ok") =>
              scan_ret'.count = added]_vars

\* C6 witness: a build returned 2 after two entries, the last of them a
\* transcript with a record flagged isMeta and a record that is indexed
C6_Witness ==
    /\ scan_pc = "done"
    /\ scan_ret = OkCount(2)
    /\ visited = 2
    /\ entry.name = <<"s", ".jsonl">>
    /\ entry.content = <<Line(TRUE, "user", Message(Text), SomeBool(TRUE), At, <<Baz>>, FALSE),
                         Line(TRUE, "user", Message(Text), NoBool, At, <<Baz>>, FALSE)>>

\* C14: passing an entry never ends the scan: after an unreadable directory
\* entry, a file with an unparseable line or a file without summary record
\* the scan goes on with the remaining entries.
C14_ScanGoesOn ==
    [][visited' = visited + 1 => (scan_pc' = "scan" /\ scan_ret' = NoRet)]_vars

\* C7: an entry whose name starts with "agent-", or does not end in ".jsonl",
\* adds no document and no command count, whatever its content.
C7_AgentFilesSkipped ==
    [][(visited' = visited + 1
           /\ (entry'.name[1] = "agent-" \/ entry'.name[Len(entry'.name)] # ".jsonl")) =>
          /\ added' = added
          /\ indexed_count' = indexed_count
          /\ command_stats' = command_stats]_vars

\* C7 witness: the scan has passed agent-s.jsonl, whose two lines are records
\* a transcript would be indexed and counted for, and nothing was added
C7_Witness ==
    /\ visited = 1
    /\ entry.kind = "file" /\ entry.readable
    /\ entry.name = <<"agent-", "s", ".jsonl">>
    /\ Len(entry.content) = 2
    /\ \A i \in 1..2 : entry.content[i] = Line(TRUE, "user", Message(Text), NoBool, At, <<Baz>>, FALSE)
    /\ added = 0
    /\ indexed_count = 0
    /\ command_stats = NoStatsYet

-----------------------------------------------------------------------------
(* Claims about the result list, checked under SpecFilter *)

RECURSIVE HitsOfProject(_, _)
\* the hits of a result list whose document has project id f, in order
HitsOfProject(hits, f) ==
    IF hits = <<>> THEN <<>>
    ELSE (IF matches[Head(hits)] = f THEN <<Head(hits)>> ELSE <<>>)
         \o HitsOfProject(Tail(hits), f)

\* C11: for one index state, query and limit, the call with project id P
\* returns exactly the hits of the call without project id whose project_id
\* is P, in the same order, and so never more hits than that call.
C11_FilterSelectsFromUnfiltered ==
    \A f \in Filters \ {NoFilter} :
        (results[f].kind = "ok" /\ results[NoFilter].kind = "ok") =>
            /\ results[f].hits = HitsOfProject(results[NoFilter].hits, f)
            /\ Len(results[f].hits) <= Len(results[NoFilter].hits)

\* C11 witness: limit 1, three documents match, two of them of project p and
\* ranked below one of project q: the call for p returns no hit
C11_Witness ==
    /\ limit = SomeLimit(1)
    /\ matches = <<"q", "p", "p">>
    /\ results[NoFilter] = OkHits(<<1>>)
    /\ results["p"] = OkHits(<<>>)

-----------------------------------------------------------------------------
(* Claims about the tokenizer, checked under SpecTokenize *)

\* C17: no token of the stream has an empty text, and the stream of a text
\* that is empty or made only of whitespace has no token.
C17_NoEmptyToken ==
    stream # NoStream =>
        /\ \A i \in 1..Len(stream.tokens) : Len(stream.tokens[i].text) > 0
        /\ (\A i \in 1..Len(text) : text[i] \in {" ", "\t", "\n"}) => stream.tokens = <<>>

\* C17 witness: " a" and a newline, cut into a word with a leading blank and
\* a word of whitespace: one token, "a"
C17_Witness ==
    /\ text = <<" ", "a", "\n">>
    /\ words = <<<<" ", "a">>, <<"\n">>>>
    /\ Len(stream.tokens) = 1
    /\ stream.tokens[1].text = <<"a">>

-----------------------------------------------------------------------------
(* Claims about atomic_write, checked under SpecAtomic *)

\* C18: at every point of the call, a crash or a failed step included, the
\* file at path is what it was before the call or holds the whole new
\* content; after a successful call it holds the new content.
C18_AllOrNothing ==
    /\ path_file = previous \/ path_file = FileOf(content)
    /\ aw_ret.kind = "ok" => path_file = FileOf(content)

\* C18 witness: the process died when one of two bytes was written, and the
\* file at path still has its previous content
C18_Witness ==
    /\ aw_pc = "crashed"
    /\ content = <<"x", "y">>
    /\ tmp_file = FileOf(<<"x">>)
    /\ previous = FileOf(<<"y">>)
    /\ path_file = previous

-----------------------------------------------------------------------------
(* Claims about the path encoding, checked under SpecPath *)

NoHyphen(path) == \A i \in 1..Len(path) : path[i] # "-"
\* no two separators in a row
NoEmptySegment(path) == \A i \in 1..(Len(path) - 1) : ~(path[i] = "/" /\ path[i + 1] = "/")

\* the paths that try_merge_segments can return in place of the plain decoding
MergedAlternatives == Probed(encoded_id) \ {DecodeBase(encoded_id)}

\* C19 as stated: an absolute path without hyphen is decoded from its
\* encoding again, when no merged alternative path exists.
C19_RoundTrip ==
    (decoded # NotDecoded /\ NoHyphen(project_path) /\ on_disk \cap MergedAlternatives = {})
        => decoded = project_path

\* C19 amended: an absolute path without hyphen and without empty segment
\* ("//") is decoded from its encoding again, when no merged alternative
\* path exists.
C19_RoundTripOfNormalPath ==
    (decoded # NotDecoded /\ NoHyphen(project_path) /\ NoEmptySegment(project_path)
         /\ on_disk \cap MergedAlternatives = {})
        => decoded = project_path

\* C19 witness: /projects/.a/a, which does not exist, is encoded and decoded
C19_Witness ==
    /\ project_path = <<"/", "projects", "/", ".", "a">>
    /\ on_disk = {}
    /\ encoded_id = <<"-", "projects", "-", "-", "a">>
    /\ decoded = project_path

-----------------------------------------------------------------------------
(* Claims about the workspace store, checked under SpecWorkspace *)

\* C20: a successful call of a mutating workspace operation persists its
\* modification of the workspace that is persisted at that moment, whatever
\* the other calls did meanwhile: no update of another call is lost.
C20_NoLostUpdate ==
    [][\A c \in Calls :
          (ws_pc[c] = "save" /\ ws_pc'[c] = "done" /\ ws_ret'[c].kind = "ok"
               /\ ws_op[c] \in Mutators)
              => /\ load_workspace_internal(ws_file).kind = "ok"
                 /\ ws_file' = WorkspaceFile(
                        Modify(ws_op[c], load_workspace_internal(ws_file).data, c).data)]_vars

\* C20 witness: add_project("/b") and create_feature of the first project
\* were called together, both succeeded, and the file holds the new project
\* and the new feature.
C20_Witness ==
    /\ ws_op[1] = AddProject("/b")
    /\ ws_op[2] = CreateFeature(P1)
    /\ \A c \in {1, 2} : ws_pc[c] = "done" /\ ws_ret[c].kind = "ok"
    /\ ws_file.kind = "json"
    /\ Len(ws_file.data.projects) = 3
    /\ ws_file.data.projects[3].id = NewId(1)
    /\ Len(ws_file.data.projects[1].features) = 3
    /\ ws_file.data.projects[1].features[3].id = NewId(2)

-----------------------------------------------------------------------------
(* Claims about the PTY sessions, checked under SpecPty *)

\* the last n elements of s
Suffix(s, n) == SubSeq(s, Len(s) - n + 1, Len(s))

\* C21: after every chunk the reader loop appends, the buffer holds at most
\* SCROLLBACK_MAX_BYTES bytes, and they are the most recent of the bytes the
\* buffer was given.
C21_ScrollbackBounded ==
    (pty_last.op = "read" /\ PTY_SCROLLBACK.present) =>
        /\ Len(PTY_SCROLLBACK.bytes) <= SCROLLBACK_MAX_BYTES
        /\ PTY_SCROLLBACK.bytes =
              Suffix(appended, Min(Len(appended), SCROLLBACK_MAX_BYTES))

\* C21 witness: a chunk was appended to a full buffer, and the oldest bytes
\* were dropped
C21_Witness ==
    /\ pty_last.op = "read"
    /\ PTY_SCROLLBACK.present
    /\ Len(appended) > SCROLLBACK_MAX_BYTES
    /\ Len(PTY_SCROLLBACK.bytes) = SCROLLBACK_MAX_BYTES

\* C30: the session registered under the id loses its writer, its master or
\* its buffer only by kill_session or by the cleanup of its own reader.
C30_SessionStaysRegistered ==
    [][(/\ PTY_SESSIONS # NoSession
        /\ \/ PTY_SESSIONS' = NoSession
           \/ PTY_MASTERS' = NoSession
           \/ ~PTY_SCROLLBACK'.present)
          => \/ pty_last'.op = "kill_session"
             \/ pty_last' = Op("reader_cleanup", PTY_SESSIONS)]_vars

-----------------------------------------------------------------------------
(* Claims about the command counts of the transcript scan, checked under    *)
(* SpecScan                                                                  *)

\* the step scanned the lines of a transcript file
ScannedFile == visited' = visited + 1 /\ entry'.kind = "file" /\ Scanned(entry'.name)

HasMarker(t) == \E j \in 1..Len(t) : t[j] = "<command-name>"
\* the markers of the line stand in tool_use or tool_result blocks and not in
\* the text the extraction rule extracts
MarkerOnlyInTool(line) ==
    /\ line.markers # <<>>
    /\ line.message.present
    /\ line.message.content.kind = "array"
    /\ \E i \in 1..Len(line.message.content.arr) :
          LET item == line.message.content.arr[i]
          IN IsToolBlock(item) /\ item.text.has /\ HasMarker(item.text.str)
    /\ ~HasMarker(extract_content_with_meta(line.message.content).text)

\* C22: a transcript file whose markers all stand inside tool_use or
\* tool_result blocks changes no command count.
C22_ToolMarkersNotCounted ==
    [][(/\ ScannedFile
        /\ \A i \in 1..Len(FileContent(entry')) :
              LET line == FileContent(entry')[i]
              IN line.markers # <<>> => MarkerOnlyInTool(line))
          => command_stats' = command_stats]_vars

\* the year the ISO week of a date belongs to
IsoYear(t) ==
    LET w == (Ordinal(t) - Weekday(t) + 10) \div 7
    IN IF w < 1 THEN t.year - 1
       ELSE IF w > WeeksInYear(t.year) THEN t.year + 1
       ELSE t.year
\* the key of the ISO week a date falls in
IsoWeekKey(t) == WeekKey([t EXCEPT !.year = IsoYear(t)])

StoredCount(stats, c, w) ==
    IF c \in DOMAIN stats /\ w \in DOMAIN stats[c] THEN stats[c][w] ELSE 0
\* the markers of a line that the claim counts for name c and week w
ExpectedOfLine(line, map, c, w) ==
    IF /\ line.parses
       /\ line.type # "queue-operation"
       /\ line.timestamp.present /\ line.timestamp.rfc3339
       /\ IsoWeekKey(line.timestamp.stamp) = w
    THEN Cardinality({j \in 1..Len(line.markers) :
                         Resolve(map, TrimStartMatches(line.markers[j], Slash)) = c})
    ELSE 0
RECURSIVE ExpectedCount(_, _, _, _, _)
ExpectedCount(lines, i, map, c, w) ==
    IF i > Len(lines) THEN 0
    ELSE ExpectedOfLine(lines[i], map, c, w) + ExpectedCount(lines, i + 1, map, c, w)
CountedNames == {<<"baz">>, <<"foo", ":", "bar">>}
CountedWeeks == {WeekKey(At.stamp), IsoWeekKey(At.stamp)}

\* C23: the scan of a transcript file adds to the count of every name and
\* week the number of markers of the file on lines that parse, are no
\* queue-operation record, have a valid timestamp falling in that week and
\* invoke a name that resolves to that name; no stored count is 0.
C23_CountsMatchMarkers ==
    [][ScannedFile =>
          /\ \A c \in CountedNames, w \in CountedWeeks :
                StoredCount(command_stats', c, w) =
                    StoredCount(command_stats, c, w)
                        + ExpectedCount(FileContent(entry'), 1, alias_map, c, w)
          /\ \A c \in DOMAIN command_stats' : \A w \in DOMAIN command_stats'[c] :
                command_stats'[c][w] > 0]_vars

-----------------------------------------------------------------------------
(* Claims about the session summary, checked under SpecSummary *)

\* the summary records of the file
SummaryRecords == {i \in 1..Len(transcript) : transcript[i].parses /\ transcript[i].type = "summary"}
\* the summary text of the first summary record, or the empty string
SummaryOfFile ==
    IF SummaryRecords = {} THEN EmptyStr
    ELSE UnwrapOrDefault(transcript[CHOOSE i \in SummaryRecords :
                                        \A j \in SummaryRecords : i <= j].summary)

\* C24: all documents of one transcript file carry the same session_summary:
\* the summary text of the first summary record of the file, wherever it
\* stands, or the empty string when the file has none.
C24_OneSummaryPerFile ==
    passes = 2 =>
        \A d \in 1..Len(documents) : documents[d].session_summary = SummaryOfFile

\* C24 witness: a message before the first summary record and one after the
\* second both carry the text of the first
C24_Witness ==
    /\ passes = 2
    /\ Len(documents) = 2
    /\ SummaryRecords # {}
    /\ \A i \in SummaryRecords : documents[1].line < i
    /\ documents[2].line > documents[1].line + 1
    /\ documents[1].session_summary = <<"a">>
    /\ documents[2].session_summary = <<"a">>

-----------------------------------------------------------------------------
(* Claims about the process-wide slot, checked under Spec *)

\* the step is one of the running process, not its exit and new start
InProcess == \E p \in Procs : pc'[p] # "idle"

\* C25: a step of the process changes a Bound slot only by the install of a
\* build, which binds that build's context: the slot never goes back to
\* Uninitialized.
C25_SlotStaysBound ==
    [][(SEARCH_INDEX.bound /\ InProcess /\ SEARCH_INDEX' # SEARCH_INDEX) =>
          \E b \in Builders :
              /\ pc[b] = "install" /\ pc'[b] = "stats"
              /\ SEARCH_INDEX' = Bound(writer[b].gen, "build")]_vars

\* C25 witness: the slot is Bound after a build failed and a search returned
\* an error
C25_Witness ==
    /\ SEARCH_INDEX.bound
    /\ \E b \in Builders : pc[b] = "done" /\ ret[b].kind = "err"
    /\ \E s \in Searchers : pc[s] = "done" /\ ret[s].kind = "err"

\* C26: a step of a search_chats call leaves the on-disk index and the
\* command-stats artifact as they are and the lock as free as it found it;
\* it changes the slot only from Uninitialized to Bound, to the index the
\* directory holds, and a search that returns an error from the open leaves
\* the slot Uninitialized.
C26_SearchOnlyBinds ==
    [][\A s \in Searchers :
          (pc'[s] # pc[s] /\ pc'[s] # "idle") =>
              /\ index_dir' = index_dir
              /\ stats_file' = stats_file
              /\ guard' \in {"free", s}
              /\ SEARCH_INDEX' # SEARCH_INDEX =>
                    /\ ~SEARCH_INDEX.bound
                    /\ index_dir.exists /\ index_dir.meta
                    /\ SEARCH_INDEX' = Bound(index_dir.gen, "open")
              /\ (pc[s] = "bind" /\ pc'[s] = "done" /\ ~SEARCH_INDEX.bound)
                    => SEARCH_INDEX' = None]_vars

-----------------------------------------------------------------------------
(* Claims about the workspace commands, checked under SpecSequence *)

\* the workspace a call finds
Persisted == load_workspace_internal(workspace_json).data

\* the seqs of the features in the workspace
SeqsInUse ==
    UNION {{Persisted.projects[p].features[f].seq :
                f \in DOMAIN Persisted.projects[p].features} :
            p \in DOMAIN Persisted.projects}

\* C27: the seqs given to created features, in the order of creation, are
\* strictly increasing, so no seq is given twice.
C27_SeqStrictlyIncreasing ==
    \A i, j \in DOMAIN assigned : i < j => assigned[i] < assigned[j]

\* C27 witness: a feature was created right after a failed call, and the
\* feature created before it, which held the highest seq, is deleted
C27_Witness ==
    /\ last_call = CallRecord("create_feature", TRUE, TRUE)
    /\ Len(assigned) >= 2
    /\ assigned[Len(assigned)] \in SeqsInUse
    /\ assigned[Len(assigned) - 1] \notin SeqsInUse

\* the places of project that hold a panel with the id: an index of
\* shared_panels, or a feature (its index) and an index of its panels
PlacesOf(project, panel_id) ==
    {[shared |-> TRUE, feature |-> 0, index |-> i] :
         i \in {i \in DOMAIN project.shared_panels :
                    project.shared_panels[i].id = panel_id}}
    \cup UNION {{[shared |-> FALSE, feature |-> f, index |-> i] :
                     i \in {i \in DOMAIN project.features[f].panels :
                                project.features[f].panels[i].id = panel_id}} :
                f \in DOMAIN project.features}

\* the panel held at a place
PanelAt(project, place) ==
    IF place.shared THEN project.shared_panels[place.index]
    ELSE project.features[place.feature].panels[place.index]

\* C28: a successful toggle_panel_shared of a panel that the project holds
\* in one place leaves it held in one place, in shared_panels if it was in a
\* feature and in a feature if it was in shared_panels, with is_shared
\* telling which.
C28_ToggleMovesPanel ==
    [][(last_call'.name = "toggle_panel_shared" /\ last_call'.ok
            /\ calls_made' # calls_made) =>
          \A p \in DOMAIN Persisted.projects :
              LET before == Persisted.projects[p]
                  after == Persisted'.projects[p]
                  was == PlacesOf(before, K1)
                  is == PlacesOf(after, K1)
              IN (after # before /\ Cardinality(was) = 1) =>
                    /\ Cardinality(is) = 1
                    /\ \A x \in was, y \in is :
                          /\ x.shared # y.shared
                          /\ PanelAt(after, y).is_shared = y.shared]_vars

\* the ids of the projects in the workspace
PersistedProjects == IdsOf(Persisted.projects)

\* C29: after every call, active_project_id is None or the id of a project
\* in the workspace, and None only if there is no project; a call that
\* failed left workspace.json as it was.
C29_ActiveProjectExists ==
    [][calls_made' # calls_made =>
          /\ Persisted'.active_project_id \in PersistedProjects' \cup {NoId}
          /\ Persisted'.active_project_id = NoId => PersistedProjects' = {}
          /\ ~last_call'.ok => workspace_json' = workspace_json]_vars

\* C29 witness: from no workspace, two projects were added, a call failed
\* and the first project, the active one, was removed: the second is active
C29_Witness ==
    /\ calls_made = 4
    /\ last_call = CallRecord("remove_project", TRUE, TRUE)
    /\ PersistedProjects = {NewId(2)}
    /\ Persisted.active_project_id = NewId(2)

====
